---- MODULE Spec2Model ----
(***************************************************************************)
(* Model of the bitmap path of the ESC/P print service:                    *)
(*   src/src/services/bitmap-font.service.ts  (glyph cache, renderChar,    *)
(*                                             renderLine)                 *)
(*   src/src/services/escp.service.ts         (command builders,           *)
(*                                             cmdGraphics24,              *)
(*                                             buildEscpFromBitmapLines)   *)
(*                                                                         *)
(* A text is a sequence of Unicode code points (what `for (const char of   *)
(* text)` iterates over), a Buffer is a sequence of bytes 0..255, a        *)
(* GlyphBitmap is [width, height, data] with data row-major, one 0/1 per   *)
(* pixel.  The process-global state of the rasterizer is glyphCache and    *)
(* cachedFont; fontFileOk is the environment (can the font file be         *)
(* loaded).  `call` is the call being served and `ret` its outcome.        *)
(***************************************************************************)
EXTENDS Integers, Sequences, FiniteSets, TLC

VARIABLES glyphCache, cachedFont, fontFileOk, call, ret,
          watcher, isProcessing, pendingFiles, queueRuns, arrivals, taken,
          jobs, requests,
          client, timeout, promise

\* the process-global state of the rasterizer and its environment
rasterVars == <<glyphCache, cachedFont, fontFileOk>>
\* the module state of the directory watcher, with the history of its queue
watcherVars == <<watcher, isProcessing, pendingFiles, queueRuns, arrivals, taken>>
\* the job queue and the route handlers in flight
routeVars == <<jobs, requests>>
\* one sendEscpToTcp call: its socket, its timer and its promise
sendVars == <<client, timeout, promise>>
serviceVars == <<watcherVars, routeVars, sendVars>>

vars == <<rasterVars, call, ret, serviceVars>>

(***************************************************************************)
(* The state of the other modules of the service when they are loaded and  *)
(* nothing has called them: no watcher, an empty pending-file queue, an    *)
(* empty job map, no socket.                                               *)
(***************************************************************************)
WatcherLoaded ==
  /\ watcher = FALSE
  /\ isProcessing = FALSE
  /\ pendingFiles = <<>>
  /\ queueRuns = {}
  /\ arrivals = 0
  /\ taken = <<>>

JobsLoaded ==
  /\ jobs = <<>>
  /\ requests = <<>>

NoSend ==
  /\ client = [sock |-> "none", write |-> "none"]
  /\ timeout = "none"
  /\ promise = "none"

ServicesLoaded ==
  /\ WatcherLoaded
  /\ JobsLoaded
  /\ NoSend

(***************************************************************************)
(* Bounds of the model.                                                    *)
(***************************************************************************)
\* longest short column buffer handed to cmdGraphics24
MaxBufLen == 6
\* longest text handed to renderLine
MaxTextLen == 2
\* longest list of LineEntry handed to buildEscpFromBitmapLines
MaxLines == 2

(***************************************************************************)
(* Program constants.                                                      *)
(***************************************************************************)
ESC == 27
FF == 12
CR == 13
LF == 10
CHAR_HEIGHT == 24
MAX_CACHE_SIZE == 4096
\* the `numColumns > 65535` limit of cmdGraphics24
MaxColumns == 65535

FONT_NORMAL == [charHeight |-> 24, asciiWidth |-> 12, cjkWidth |-> 24]
FONT_SMALL == [charHeight |-> 20, asciiWidth |-> 10, cjkWidth |-> 20]
FONT_LARGE == [charHeight |-> 48, asciiWidth |-> 24, cjkWidth |-> 48]

(***************************************************************************)
(* Small arithmetic helpers (JavaScript Math.* and bit operators on        *)
(* non-negative 32-bit values).                                            *)
(***************************************************************************)
Min(a, b) == IF a < b THEN a ELSE b
Max(a, b) == IF a > b THEN a ELSE b

\* Math.ceil(a / b) for a >= 0, b > 0
CeilDiv(a, b) == (a + b - 1) \div b

\* 1 << n
Pow2(n) == 2 ^ n

\* byte |= (1 << bitIdx)
OrBit(byte, bitIdx) ==
  IF (byte \div Pow2(bitIdx)) % 2 = 1 THEN byte ELSE byte + Pow2(bitIdx)

\* Buffer.alloc(n): n zero bytes
BufferAlloc(n) == [i \in 1..n |-> 0]

\* the outcome of a call: a returned value or a thrown Error
Returned(v) == [status |-> "ok", value |-> v, error |-> ""]
Thrown(msg) == [status |-> "throw", value |-> <<>>, error |-> msg]
Pending == [status |-> "pending", value |-> <<>>, error |-> ""]

(***************************************************************************)
(* escp.service.ts: low-level command builders.                            *)
(***************************************************************************)
cmdInit == <<ESC, 64>>

cmdPageLength(lines) == <<ESC, 67, Min(Max(lines, 1), 127)>>

cmdLineSpacing(n) == <<ESC, 51, Min(Max(n, 0), 255)>>

cmdCRLF == <<CR, LF>>

cmdCR == <<CR>>

cmdFF == <<FF>>

\* GraphicsHeader as it would be if nL/nH held the byte length of the data
GraphicsHeader_ByteLength(numColumns) ==
  <<ESC, 42, 39, (3 * numColumns) % 256, ((3 * numColumns) \div 256) % 256>>

\* the 5-byte header ESC * 39 nL nH of cmdGraphics24
GraphicsHeader(numColumns) ==
  <<ESC, 42, 39, numColumns % 256, (numColumns \div 256) % 256>>

\* cmdGraphics24 as it would be without the multiple-of-3 test
cmdGraphics24_NoLengthTest(columnData) ==
  IF Len(columnData) \div 3 > MaxColumns
    THEN Thrown("Graphics column count exceeds 16-bit limit")
    ELSE Returned(<<ESC, 42, 39, (Len(columnData) \div 3) % 256,
                    ((Len(columnData) \div 3) \div 256) % 256>> \o columnData)

\* columnData.length: the number of bytes of a buffer, read off its index
\* range without reading the bytes
BufferLength(buffer) == Cardinality(DOMAIN buffer)

\* cmdGraphics24(columnData): throws, or returns header + data
cmdGraphics24(columnData) ==
  IF BufferLength(columnData) % 3 # 0
    THEN Thrown("Graphics column data must be a multiple of 3 bytes")
    ELSE IF BufferLength(columnData) \div 3 > MaxColumns
      THEN Thrown("Graphics column count exceeds 16-bit limit")
      ELSE Returned(GraphicsHeader(BufferLength(columnData) \div 3) \o columnData)

(***************************************************************************)
(* bitmap-font.service.ts: font, glyph cache, renderChar.                  *)
(***************************************************************************)
\* isCJK as it would be with only the first range (U+2E80..U+9FFF)
isCJK_FirstRangeOnly(code) == code >= 11904 /\ code <= 40959

isCJK(code) ==
  \/ (code >= 11904 /\ code <= 40959)
  \/ (code >= 63744 /\ code <= 64255)
  \/ (code >= 65072 /\ code <= 65103)
  \/ (code >= 131072 /\ code <= 195103)
  \/ (code >= 65280 /\ code <= 65376)
  \/ (code >= 65504 /\ code <= 65510)

\* getFont(): [ok, font] where font is the new value of cachedFont;
\* the font file is read only while no font is cached
getFont(font, fileOk) ==
  IF font THEN [ok |-> TRUE, font |-> TRUE]
  ELSE IF fileOk THEN [ok |-> TRUE, font |-> TRUE]
  ELSE [ok |-> FALSE, font |-> FALSE]

\* String(n) for an integer n: its decimal digits, as code points
RECURSIVE NumberText(_)
NumberText(n) ==
  IF n < 0 THEN <<45>> \o NumberText(-n)
  ELSE IF n < 10 THEN <<48 + n>>
  ELSE NumberText(n \div 10) \o <<48 + (n % 10)>>

\* CacheKey as it would be if the key were the character alone
CacheKey_CharOnly(code, fs) == <<code>>

\* CacheKey as it would be if the four parts were joined without ':'
CacheKey_NoSeparator(code, fs) ==
  <<code>> \o NumberText(fs.charHeight) \o NumberText(fs.asciiWidth)
    \o NumberText(fs.cjkWidth)

\* `${char}:${charHeight}:${fs.asciiWidth}:${fs.cjkWidth}`: the text of the
\* key, as code points (58 is ':')
CacheKey(code, fs) ==
  <<code, 58>> \o NumberText(fs.charHeight) \o <<58>> \o NumberText(fs.asciiWidth)
    \o <<58>> \o NumberText(fs.cjkWidth)

\* glyphCache.get(key): position of the key in insertion order, 0 if absent
CacheIndex(cache, key) ==
  IF \E i \in 1..Len(cache) : cache[i].key = key
    THEN CHOOSE i \in 1..Len(cache) : cache[i].key = key
    ELSE 0

\* cacheGlyph as it would be if the newest entry were evicted
cacheGlyph_EvictNewest(cache, key, bitmap) ==
  LET kept == IF Len(cache) >= MAX_CACHE_SIZE /\ Len(cache) > 0
                THEN SubSeq(cache, 1, Len(cache) - 1) ELSE cache
      at == CacheIndex(kept, key)
  IN IF at # 0
       THEN [kept EXCEPT ![at] = [key |-> key, bmp |-> bitmap]]
       ELSE Append(kept, [key |-> key, bmp |-> bitmap])

\* clearGlyphCache(): glyphCache.clear()
clearGlyphCache(cache) == <<>>

\* cacheGlyph(key, bitmap): FIFO eviction when full, then Map.set
cacheGlyph(cache, key, bitmap) ==
  LET kept == IF Len(cache) >= MAX_CACHE_SIZE /\ Len(cache) > 0
                THEN Tail(cache) ELSE cache
      at == CacheIndex(kept, key)
  IN IF at # 0
       THEN [kept EXCEPT ![at] = [key |-> key, bmp |-> bitmap]]
       ELSE Append(kept, [key |-> key, bmp |-> bitmap])

\* The outline of the glyph of `code` in the font file, rasterized into a
\* width x height cell (glyph.getPath, pathToPolygons, scanlineFill).  The
\* font file is data outside the program: the model font inks a diagonal
\* hatch that depends on the character, and the bottom row of the cell.
InkAt(code, x, row, width, height) ==
  \/ (x + 2 * row + code) % 5 = 0
  \/ (row = height - 1 /\ x % 2 = 0)

RasterizeGlyph(code, width, height) ==
  [i \in 1..(width * height) |->
     IF InkAt(code, (i - 1) % width, (i - 1) \div width, width, height)
       THEN 1 ELSE 0]

\* renderChar as it would be without the branch for the space and the
\* control characters
renderChar_NoEmptyGlyph(st, fileOk, code, fs) ==
  LET key == CacheKey(code, fs)
      hit == CacheIndex(st.cache, key)
      got == getFont(st.font, fileOk)
      targetWidth == IF isCJK(code) THEN fs.cjkWidth ELSE fs.asciiWidth
      result == [width |-> targetWidth, height |-> fs.charHeight,
                 data |-> RasterizeGlyph(code, targetWidth, fs.charHeight)]
  IN IF hit # 0
       THEN [ok |-> TRUE, bmp |-> st.cache[hit].bmp, rasterized |-> FALSE,
             cache |-> st.cache, font |-> st.font]
     ELSE IF ~got.ok
       THEN [ok |-> FALSE, bmp |-> <<>>, rasterized |-> FALSE,
             cache |-> st.cache, font |-> got.font]
     ELSE [ok |-> TRUE, bmp |-> result, rasterized |-> TRUE,
           cache |-> cacheGlyph(st.cache, key, result), font |-> got.font]

\* renderChar as it would be if a cache hit moved the entry to the newest
\* position (eviction by access order)
renderChar_TouchOnHit(st, fileOk, code, fs) ==
  LET key == CacheKey(code, fs)
      hit == CacheIndex(st.cache, key)
      got == getFont(st.font, fileOk)
      targetWidth == IF isCJK(code) THEN fs.cjkWidth ELSE fs.asciiWidth
      empty == code = 32 \/ code <= 32
      result ==
        IF empty
          THEN [width |-> fs.asciiWidth, height |-> fs.charHeight,
                data |-> BufferAlloc(fs.asciiWidth * fs.charHeight)]
          ELSE [width |-> targetWidth, height |-> fs.charHeight,
                data |-> RasterizeGlyph(code, targetWidth, fs.charHeight)]
  IN IF hit # 0
       THEN [ok |-> TRUE, bmp |-> st.cache[hit].bmp, rasterized |-> FALSE,
             cache |-> Append(SubSeq(st.cache, 1, hit - 1)
                                \o SubSeq(st.cache, hit + 1, Len(st.cache)),
                              st.cache[hit]),
             font |-> st.font]
     ELSE IF ~got.ok
       THEN [ok |-> FALSE, bmp |-> <<>>, rasterized |-> FALSE,
             cache |-> st.cache, font |-> got.font]
     ELSE [ok |-> TRUE, bmp |-> result, rasterized |-> ~empty,
           cache |-> cacheGlyph(st.cache, key, result), font |-> got.font]

\* renderChar as it would be if the space and the control characters were
\* answered before the font is loaded
renderChar_EmptyBeforeFont(st, fileOk, code, fs) ==
  LET key == CacheKey(code, fs)
      hit == CacheIndex(st.cache, key)
      got == getFont(st.font, fileOk)
      targetWidth == IF isCJK(code) THEN fs.cjkWidth ELSE fs.asciiWidth
      empty == code = 32 \/ code <= 32
      blank == [width |-> fs.asciiWidth, height |-> fs.charHeight,
                data |-> BufferAlloc(fs.asciiWidth * fs.charHeight)]
      result == [width |-> targetWidth, height |-> fs.charHeight,
                 data |-> RasterizeGlyph(code, targetWidth, fs.charHeight)]
  IN IF hit # 0
       THEN [ok |-> TRUE, bmp |-> st.cache[hit].bmp, rasterized |-> FALSE,
             cache |-> st.cache, font |-> st.font]
     ELSE IF empty
       THEN [ok |-> TRUE, bmp |-> blank, rasterized |-> FALSE,
             cache |-> cacheGlyph(st.cache, key, blank), font |-> st.font]
     ELSE IF ~got.ok
       THEN [ok |-> FALSE, bmp |-> <<>>, rasterized |-> FALSE,
             cache |-> st.cache, font |-> got.font]
     ELSE [ok |-> TRUE, bmp |-> result, rasterized |-> TRUE,
           cache |-> cacheGlyph(st.cache, key, result), font |-> got.font]

\* renderChar(char, fontSize) run on rasterizer state st = [cache, font]:
\* [ok, bmp, rasterized, cache, font]; ok = FALSE is the Error thrown by
\* getFont, rasterized tells whether the call went through the outline
\* extraction and scanlineFill (lines 326-368)
renderChar(st, fileOk, code, fs) ==
  LET key == CacheKey(code, fs)
      hit == CacheIndex(st.cache, key)
      got == getFont(st.font, fileOk)
      targetWidth == IF isCJK(code) THEN fs.cjkWidth ELSE fs.asciiWidth
      empty == code = 32 \/ code <= 32
      result ==
        IF empty
          THEN [width |-> fs.asciiWidth, height |-> fs.charHeight,
                data |-> BufferAlloc(fs.asciiWidth * fs.charHeight)]
          ELSE [width |-> targetWidth, height |-> fs.charHeight,
                data |-> RasterizeGlyph(code, targetWidth, fs.charHeight)]
  IN IF hit # 0
       THEN [ok |-> TRUE, bmp |-> st.cache[hit].bmp, rasterized |-> FALSE,
             cache |-> st.cache, font |-> st.font]
     ELSE IF ~got.ok
       THEN [ok |-> FALSE, bmp |-> <<>>, rasterized |-> FALSE,
             cache |-> st.cache, font |-> got.font]
     ELSE [ok |-> TRUE, bmp |-> result, rasterized |-> ~empty,
           cache |-> cacheGlyph(st.cache, key, result), font |-> got.font]

(***************************************************************************)
(* bitmap-font.service.ts: renderLine.                                     *)
(***************************************************************************)
\* BitIdx as it would be with the least significant bit for the top pin
BitIdx_LsbFirst(pin) == pin % 8

\* the byte and the bit of a band column that hold pin `pin` (0..23)
ByteIdx(pin) == pin \div 8
BitIdx(pin) == 7 - (pin % 8)

\* the inner loop `for (pin = 0; pin < 24; pin++)` for column x of bmp:
\* the 3 bytes of the column, starting from the zero-filled group acc
RECURSIVE PackPins(_, _, _, _, _)
PackPins(bmp, x, bandTop, pin, acc) ==
  IF pin >= 24 THEN acc
  ELSE LET row == bandTop + pin
           set == /\ row < bmp.height
                  /\ bmp.data[row * bmp.width + x + 1] # 0
       IN PackPins(bmp, x, bandTop, pin + 1,
                   IF set
                     THEN [acc EXCEPT ![ByteIdx(pin) + 1] = OrBit(@, BitIdx(pin))]
                     ELSE acc)

\* the loop `for (x = 0; x < bmp.width; x++)`: the columns of one glyph
RECURSIVE GlyphColumns(_, _, _)
GlyphColumns(bmp, bandTop, x) ==
  IF x >= bmp.width THEN <<>>
  ELSE PackPins(bmp, x, bandTop, 0, <<0, 0, 0>>) \o GlyphColumns(bmp, bandTop, x + 1)

\* BandColumns as it would be if the glyphs were laid out right to left
RECURSIVE BandColumns_RightToLeft(_, _)
BandColumns_RightToLeft(bitmaps, bandTop) ==
  IF bitmaps = <<>> THEN <<>>
  ELSE BandColumns_RightToLeft(Tail(bitmaps), bandTop)
         \o GlyphColumns(Head(bitmaps), bandTop, 0)

\* the loop `for (const bmp of bitmaps)`: glyphs left to right (colOffset)
RECURSIVE BandColumns(_, _)
BandColumns(bitmaps, bandTop) ==
  IF bitmaps = <<>> THEN <<>>
  ELSE GlyphColumns(Head(bitmaps), bandTop, 0) \o BandColumns(Tail(bitmaps), bandTop)

\* BandAlloc as it would be with two bytes allocated per column
BandAlloc_TwoBytesPerColumn(totalWidth) == BufferAlloc(totalWidth * 2)

\* BandAlloc as it would be with one byte more than three per column
BandAlloc_OneExtraByte(totalWidth) == BufferAlloc(totalWidth * 3 + 1)

\* `Buffer.alloc(totalWidth * 3)`: the zero-filled buffer of one band
BandAlloc(totalWidth) == BufferAlloc(totalWidth * 3)

\* the writes `bandColumns[col * 3 + byteIdx] |= ...` of one band applied to
\* the allocated buffer: a write past its end is dropped, a byte that is
\* never written stays 0
WriteColumns(buffer, written) ==
  [i \in 1..Len(buffer) |-> IF i <= Len(written) THEN written[i] ELSE buffer[i]]

\* the loop `for (band = 0; band < bandCount; band++)`: one buffer per band,
\* band `band` covering the rows from bandTop = band * CHAR_HEIGHT
RECURSIVE Bands(_, _, _, _)
Bands(bitmaps, band, bandCount, totalWidth) ==
  IF band >= bandCount THEN <<>>
  ELSE <<WriteColumns(BandAlloc(totalWidth), BandColumns(bitmaps, band * CHAR_HEIGHT))>>
         \o Bands(bitmaps, band + 1, bandCount, totalWidth)

\* bitmaps.reduce((sum, b) => sum + b.width, 0)
RECURSIVE TotalWidth(_)
TotalWidth(bitmaps) ==
  IF bitmaps = <<>> THEN 0 ELSE Head(bitmaps).width + TotalWidth(Tail(bitmaps))

\* the loop `for (const char of text) bitmaps.push(renderChar(char, fs))`:
\* [ok, bitmaps, cache, font]; stops at the first throw.  PushChar is one
\* turn of the loop once renderChar has answered r for the first character.
RECURSIVE RenderChars(_, _, _, _, _)
RECURSIVE PushChar(_, _, _, _, _)
PushChar(r, fileOk, text, fs, bitmaps) ==
  IF ~r.ok
    THEN [ok |-> FALSE, bitmaps |-> bitmaps, cache |-> r.cache, font |-> r.font]
    ELSE RenderChars([cache |-> r.cache, font |-> r.font], fileOk,
                     Tail(text), fs, Append(bitmaps, r.bmp))

RenderChars(st, fileOk, text, fs, bitmaps) ==
  IF text = <<>>
    THEN [ok |-> TRUE, bitmaps |-> bitmaps, cache |-> st.cache, font |-> st.font]
    ELSE PushChar(renderChar(st, fileOk, Head(text), fs), fileOk, text, fs, bitmaps)

\* BandCount as it would be if rounded down and one band added
BandCount_FloorPlusOne(fs) == fs.charHeight \div CHAR_HEIGHT + 1

\* Math.ceil(fs.charHeight / CHAR_HEIGHT)
BandCount(fs) == CeilDiv(fs.charHeight, CHAR_HEIGHT)

\* `return { width: totalWidth, columns: bands[0], bandCount, bands }`
RenderedLine(totalWidth, bandCount, bands) ==
  [width |-> totalWidth, columns |-> bands[1], bandCount |-> bandCount, bands |-> bands]

\* the part of renderLine after the loop over the characters: the bands of
\* the rendered bitmaps at the width they add up to
BandedLine(bitmaps, totalWidth, bandCount) ==
  RenderedLine(totalWidth, bandCount, Bands(bitmaps, 0, bandCount, totalWidth))

\* renderLine once the characters are rendered (r = [ok, bitmaps, cache,
\* font]): the Error of renderChar propagates, else the line is returned
LineOfChars(r, fs) ==
  IF ~r.ok
    THEN [ret |-> Thrown("Cannot load font"), cache |-> r.cache, font |-> r.font]
    ELSE [ret |-> Returned(BandedLine(r.bitmaps, TotalWidth(r.bitmaps), BandCount(fs))),
          cache |-> r.cache, font |-> r.font]

\* renderLine as it would be without the early return for an empty text
renderLine_NoEmptyReturn(st, fileOk, text, fs) ==
  LineOfChars(RenderChars(st, fileOk, text, fs, <<>>), fs)

\* renderLine(text, fontSize) on rasterizer state st:
\* [ret, cache, font], ret the RenderedLine returned or the Error thrown
renderLine(st, fileOk, text, fs) ==
  IF text = <<>>
    THEN [ret |-> Returned([width |-> 0, columns |-> <<>>, bandCount |-> 1,
                            bands |-> << <<>> >>]),
          cache |-> st.cache, font |-> st.font]
    ELSE LineOfChars(RenderChars(st, fileOk, text, fs, <<>>), fs)

(***************************************************************************)
(* escp.service.ts: buildEscpFromBitmapLines.                              *)
(***************************************************************************)
\* the code points String.prototype.trim() strips (WhiteSpace and
\* LineTerminator of ECMAScript)
IsTrimSpace(code) ==
  \/ code \in {9, 10, 11, 12, 13, 32, 160, 5760, 8232, 8233, 8239, 8287, 12288, 65279}
  \/ (code >= 8192 /\ code <= 8202)

\* IsBlankText as it would be without the trim(): only the empty text
IsBlankText_EmptyOnly(lineText) == lineText = <<>>

\* `!lineText || lineText.trim().length === 0`
IsBlankText(lineText) ==
  \/ lineText = <<>>
  \/ \A i \in 1..Len(lineText) : IsTrimSpace(lineText[i])

\* EntryFontSize as it would be if the entry's fontSize were ignored
EntryFontSize_AlwaysNormal(entry) == FONT_NORMAL

\* a LineEntry is <<text>> (a bare string) or <<text, fontSize>> (an object)
EntryText(entry) == entry[1]
EntryFontSize(entry) == IF Len(entry) = 1 THEN FONT_NORMAL ELSE entry[2]

\* BandOut as it would be with a bare line feed after the graphics command
BandOut_LineFeedOnly(band) ==
  LET g == cmdGraphics24(band)
  IN IF g.status = "throw"
       THEN [ok |-> FALSE, bytes |-> <<>>, error |-> g.error]
       ELSE [ok |-> TRUE, bytes |-> cmdCR \o g.value \o <<LF>>, error |-> ""]

\* what one band contributes: cmdCR(), cmdGraphics24(band), cmdCRLF();
\* [ok, bytes], ok = FALSE when cmdGraphics24 throws
BandOut(band) ==
  LET g == cmdGraphics24(band)
  IN IF g.status = "throw"
       THEN [ok |-> FALSE, bytes |-> <<>>, error |-> g.error]
       ELSE [ok |-> TRUE, bytes |-> cmdCR \o g.value \o cmdCRLF, error |-> ""]

\* the loop `for (b = 0; b < rendered.bandCount; b++)`
RECURSIVE BandsOut(_, _)
BandsOut(rendered, b) ==
  IF b >= rendered.bandCount THEN [ok |-> TRUE, bytes |-> <<>>, error |-> ""]
  ELSE LET one == BandOut(rendered.bands[b + 1])
           rest == BandsOut(rendered, b + 1)
       IN IF ~one.ok THEN one
          ELSE IF ~rest.ok THEN rest
          ELSE [ok |-> TRUE, bytes |-> one.bytes \o rest.bytes, error |-> ""]

\* what a rendered line contributes: its bands when `rendered.width > 0`,
\* else cmdCRLF()
RenderedOut(rendered) ==
  IF rendered.width > 0
    THEN BandsOut(rendered, 0)
    ELSE [ok |-> TRUE, bytes |-> cmdCRLF, error |-> ""]

\* the bytes `out` of a line with the rasterizer state renderLine left
OutWith(out, cache, font) ==
  [ok |-> out.ok, bytes |-> out.bytes, error |-> out.error,
   cache |-> cache, font |-> font]

\* the rest of the loop body once renderLine has answered r = [ret, cache,
\* font]: its Error propagates, else the rendered line is emitted
PrintableOut(r) ==
  IF r.ret.status = "throw"
    THEN [ok |-> FALSE, bytes |-> <<>>, error |-> r.ret.error,
          cache |-> r.cache, font |-> r.font]
    ELSE OutWith(RenderedOut(r.ret.value), r.cache, r.font)

\* the body of the loop over the entries, for one entry, on rasterizer
\* state st: [ok, bytes, error, cache, font]
LineOut(st, fileOk, entry) ==
  IF IsBlankText(EntryText(entry))
    THEN [ok |-> TRUE, bytes |-> cmdCRLF, error |-> "",
          cache |-> st.cache, font |-> st.font]
    ELSE PrintableOut(renderLine(st, fileOk, EntryText(entry), EntryFontSize(entry)))

\* the loop `for (const entry of lines)`; stops at the first throw.
\* AfterLine is the loop once the first entry has contributed `one`.
RECURSIVE LinesOut(_, _, _, _)
RECURSIVE AfterLine(_, _, _, _)
AfterLine(one, fileOk, lines, bytes) ==
  IF ~one.ok
    THEN one
    ELSE LinesOut([cache |-> one.cache, font |-> one.font], fileOk,
                  Tail(lines), bytes \o one.bytes)

LinesOut(st, fileOk, lines, bytes) ==
  IF lines = <<>>
    THEN [ok |-> TRUE, bytes |-> bytes, error |-> "", cache |-> st.cache, font |-> st.font]
    ELSE AfterLine(LineOut(st, fileOk, Head(lines)), fileOk, lines, bytes)

\* Prologue as it would be with the page length set before the line spacing
Prologue_PageLengthFirst(initPrinter, pageLines) ==
  (IF initPrinter THEN cmdInit ELSE <<>>)
    \o (IF pageLines > 0 THEN cmdPageLength(pageLines) ELSE <<>>)
    \o cmdLineSpacing(24)

\* what is pushed before the lines: cmdInit(), cmdLineSpacing(24) and
\* cmdPageLength(pageLines)
Prologue(initPrinter, pageLines) ==
  (IF initPrinter THEN cmdInit ELSE <<>>)
    \o cmdLineSpacing(24)
    \o (IF pageLines > 0 THEN cmdPageLength(pageLines) ELSE <<>>)

\* what is pushed after the lines: cmdFF()
Epilogue(formFeed) == IF formFeed THEN cmdFF ELSE <<>>

\* an optional option: <<>> (left out) or <<value>>
OrDefault(arg, default) == IF arg = <<>> THEN default ELSE arg[1]

\* the end of buildEscpFromBitmapLines once the loop has left body = [ok,
\* bytes, error, cache, font]: `parts.push(cmdFF())` and
\* `return Buffer.concat(parts)`, or the Error thrown in the loop
BuildReturn(body, formFeed) ==
  IF ~body.ok
    THEN [ret |-> Thrown(body.error), cache |-> body.cache, font |-> body.font]
    ELSE [ret |-> Returned(body.bytes \o Epilogue(formFeed)),
          cache |-> body.cache, font |-> body.font]

\* buildEscpFromBitmapLines({lines, formFeed, initPrinter, pageLines}) on
\* rasterizer state st: [ret, cache, font]
buildEscpFromBitmapLines(st, fileOk, lines, formFeedArg, initPrinterArg, pageLinesArg) ==
  BuildReturn(LinesOut(st, fileOk, lines,
                       Prologue(OrDefault(initPrinterArg, TRUE),
                                OrDefault(pageLinesArg, 0))),
              OrDefault(formFeedArg, TRUE))

(***************************************************************************)
(* Inputs of cmdGraphics24: every short buffer over a few byte values, and *)
(* zero-filled buffers around 256 columns and around the 16-bit limit.     *)
(***************************************************************************)
SampleBytes == {0, 27, 255}

ShortBuffers == UNION {[1..n -> SampleBytes] : n \in 0..MaxBufLen}

LongLengths ==
  {3 * 256, 3 * 300 + 1,
   3 * MaxColumns - 3, 3 * MaxColumns, 3 * MaxColumns + 1,
   3 * MaxColumns + 2, 3 * MaxColumns + 3, 3 * MaxColumns + 6}

GfxCalls ==
  {[op |-> "cmdGraphics24", args |-> <<b>>] : b \in ShortBuffers}
    \cup {[op |-> "cmdGraphics24", args |-> <<BufferAlloc(n)>>] : n \in LongLengths}

InitGfx ==
  /\ glyphCache = <<>>
  /\ cachedFont = FALSE
  /\ fontFileOk \in BOOLEAN
  /\ call \in GfxCalls
  /\ ret = Pending
  /\ ServicesLoaded

\* one call of cmdGraphics24 (pure: touches neither the cache nor the font)
CmdGraphics24Call ==
  /\ call.op = "cmdGraphics24"
  /\ ret.status = "pending"
  /\ ret' = cmdGraphics24(call.args[1])
  /\ UNCHANGED <<glyphCache, cachedFont, fontFileOk, call>>
  /\ UNCHANGED serviceVars

(***************************************************************************)
(* Inputs of renderLine: texts over a control character (TAB), the space,  *)
(* a Latin letter and a CJK ideograph, at the three canonical profiles, a  *)
(* profile whose height is no multiple of 24 pins, or no profile at all.   *)
(***************************************************************************)
LineChars == {9, 32, 65, 20013}

Texts(chars, maxLen) == UNION {[1..n -> chars] : n \in 0..maxLen}

Profiles ==
  {FONT_NORMAL, FONT_SMALL, FONT_LARGE,
   [charHeight |-> 50, asciiWidth |-> 2, cjkWidth |-> 3]}

\* an optional FontSize argument: <<>> (omitted) or <<fontSize>>
OptionalProfiles == {<<>>} \cup {<<p>> : p \in Profiles}

\* `fontSize ?? FONT_NORMAL`
OrNormal(fontSizeArg) == IF fontSizeArg = <<>> THEN FONT_NORMAL ELSE fontSizeArg[1]

\* States of the rasterizer a call can find: after construction, after
\* preloadFont(), and after an earlier renderLine("A") filled the cache.
ColdRasterizer == [cache |-> <<>>, font |-> FALSE]

RasterizerStates ==
  LET warm == renderLine(ColdRasterizer, TRUE, <<65>>, FONT_NORMAL)
  IN {ColdRasterizer,
      [cache |-> <<>>, font |-> TRUE],
      [cache |-> warm.cache, font |-> warm.font]}

LineCalls ==
  {[op |-> "renderLine", args |-> <<t, f>>] :
     t \in Texts(LineChars, MaxTextLen), f \in OptionalProfiles}

InitLine ==
  /\ \E st \in RasterizerStates : glyphCache = st.cache /\ cachedFont = st.font
  /\ fontFileOk \in BOOLEAN
  /\ call \in LineCalls
  /\ ret = Pending
  /\ ServicesLoaded

\* one call of renderLine(text, fontSize)
RenderLineCall ==
  /\ call.op = "renderLine"
  /\ ret.status = "pending"
  /\ \E r \in {renderLine([cache |-> glyphCache, font |-> cachedFont], fontFileOk,
                           call.args[1], OrNormal(call.args[2]))} :
        /\ ret' = r.ret
        /\ glyphCache' = r.cache
        /\ cachedFont' = r.font
  /\ UNCHANGED <<fontFileOk, call>>
  /\ UNCHANGED serviceVars

NextLine == RenderLineCall

SpecLine == InitLine /\ [][NextLine]_vars

(***************************************************************************)
(* Inputs of buildEscpFromBitmapLines: lists of LineEntry that mix empty,  *)
(* whitespace-only (TAB, space, ideographic space) and printable lines,    *)
(* as bare strings and at the Small, Large and 50-pixel profiles, with     *)
(* every option left out or given.                                         *)
(***************************************************************************)
Entries ==
  { << <<>> >>,
    << <<9, 32, 12288>>, FONT_LARGE >>,
    << <<65>> >>,
    << <<32, 65>>, FONT_SMALL >>,
    << <<65>>, FONT_LARGE >>,
    << <<20013>>, [charHeight |-> 50, asciiWidth |-> 2, cjkWidth |-> 3] >> }

Documents == UNION {[1..n -> Entries] : n \in 0..MaxLines}

OptionalBooleans == {<<>>, <<TRUE>>, <<FALSE>>}

OptionalPageLines == {<<>>, <<44>>}

\* a line of one control character (U+0001, which trim() keeps) at a
\* profile one pixel high whose ASCII cell is one column wider than a
\* 16-bit column count, alone, after and before an ordinary line
WideEntry ==
  << <<1>>, [charHeight |-> 1, asciiWidth |-> MaxColumns + 1, cjkWidth |-> 1] >>

WideDocuments ==
  {<<WideEntry>>, << << <<65>> >>, WideEntry>>, <<WideEntry, << <<65>> >> >>}

BuildCalls ==
  {[op |-> "buildEscpFromBitmapLines", args |-> <<d, ff, ip, pl>>] :
     d \in Documents \cup WideDocuments, ff \in OptionalBooleans,
     ip \in OptionalBooleans, pl \in OptionalPageLines}

InitBuild ==
  /\ glyphCache = ColdRasterizer.cache
  /\ cachedFont = ColdRasterizer.font
  /\ fontFileOk \in BOOLEAN
  /\ call \in BuildCalls
  /\ ret = Pending
  /\ ServicesLoaded

\* one call of buildEscpFromBitmapLines(options)
BuildEscpFromBitmapLinesCall ==
  /\ call.op = "buildEscpFromBitmapLines"
  /\ ret.status = "pending"
  /\ \E r \in {buildEscpFromBitmapLines([cache |-> glyphCache, font |-> cachedFont],
                                        fontFileOk, call.args[1], call.args[2],
                                        call.args[3], call.args[4])} :
        /\ ret' = r.ret
        /\ glyphCache' = r.cache
        /\ cachedFont' = r.font
  /\ UNCHANGED <<fontFileOk, call>>
  /\ UNCHANGED serviceVars

NextBuild == BuildEscpFromBitmapLinesCall

SpecBuild == InitBuild /\ [][NextBuild]_vars

NextGfx == CmdGraphics24Call

SpecGfx == InitGfx /\ [][NextGfx]_vars

(***************************************************************************)
(* Claims about cmdGraphics24, checked under SpecGfx.                      *)
(***************************************************************************)
GfxDone == call.op = "cmdGraphics24" /\ ret.status # "pending"

GfxInput == call.args[1]

\* C5: cmdGraphics24 raises an error and returns no bytes exactly when the
\* length of the column data is no multiple of 3 or the column count
\* (length / 3) exceeds 65535; every other input, length 0 included, succeeds.
C5_GraphicsRejects ==
  GfxDone =>
    LET accepted == Len(GfxInput) % 3 = 0 /\ Len(GfxInput) \div 3 <= 65535
    IN /\ (ret.status = "ok") <=> accepted
       /\ (ret.status = "throw") <=> ~accepted
       /\ (ret.status = "throw") => (ret.value = <<>> /\ ret.error # "")

\* C5 witness: a buffer that ends in the middle of a column was rejected
C5_Witness_PartialColumn ==
  /\ GfxDone
  /\ Len(GfxInput) \in {4, 5}
  /\ ret.status = "throw"

\* C6: for an accepted buffer of L = 3k bytes cmdGraphics24 returns L + 5
\* bytes: 1B 2A 27, then nL = k mod 256 and nH = k div 256 (the column
\* count, not the byte length), then the input bytes unchanged.
C6_GraphicsEncoding ==
  (GfxDone /\ ret.status = "ok") =>
    LET L == Len(GfxInput)
        k == L \div 3
        out == ret.value
    IN /\ Len(out) = L + 5
       /\ out[1] = 27 /\ out[2] = 42 /\ out[3] = 39
       /\ out[4] \in 0..255 /\ out[5] \in 0..255
       /\ out[4] = k % 256 /\ out[5] = k \div 256
       /\ out[4] + 256 * out[5] = k
       /\ SubSeq(out, 6, L + 5) = GfxInput

\* C6 witness: a buffer of 300 columns was encoded with nH # 0
C6_Witness_TwoByteCount ==
  /\ GfxDone
  /\ ret.status = "ok"
  /\ Len(GfxInput) = 3 * 256
  /\ ret.value[4] = 0 /\ ret.value[5] = 1

(***************************************************************************)
(* Claims about renderLine, checked under SpecLine.                        *)
(***************************************************************************)
LineReturned == call.op = "renderLine" /\ ret.status = "ok"

LineText == call.args[1]

\* the profile of the call: the one given, Normal (24/12/24) when left out
LineProfile == IF call.args[2] = <<>> THEN FONT_NORMAL ELSE call.args[2][1]

\* the decimal digits of a natural number, as code points
RECURSIVE Decimal(_)
Decimal(n) == IF n < 10 THEN <<48 + n>> ELSE Append(Decimal(n \div 10), 48 + (n % 10))

\* the text "<char>:<h>:<a>:<c>" under which the glyph of a character at a
\* profile with these three values is cached
KeyString(code, h, a, c) ==
  <<code>> \o <<58>> \o Decimal(h) \o <<58>> \o Decimal(a) \o <<58>> \o Decimal(c)

\* bit k (0 = least significant) of a byte
BitOf(byte, k) == (byte \div (2 ^ k)) % 2

\* the positions of the glyph cache that hold a character at a profile
CachedAt(code, fs) ==
  {i \in 1..Len(glyphCache) :
     glyphCache[i].key
       = KeyString(code, fs.charHeight, fs.asciiWidth, fs.cjkWidth)}

\* the bitmap the glyph cache holds for a character of the line; a bitmap
\* of no rasterizer (width -1) when the cache holds none
CachedGlyph(code, fs) ==
  IF CachedAt(code, fs) = {}
  THEN [width |-> -1, height |-> -1, data |-> <<>>]
  ELSE glyphCache[CHOOSE i \in CachedAt(code, fs) : TRUE].bmp

\* the first dot column (from 0) of the j-th glyph of the line
RECURSIVE GlyphStart(_, _, _)
GlyphStart(text, fs, j) ==
  IF j <= 1 THEN 0
  ELSE GlyphStart(text, fs, j - 1) + CachedGlyph(text[j - 1], fs).width

\* C7: in every RenderedLine each buffer of bands, and the columns buffer,
\* is exactly 3 x width bytes long (so its length is a multiple of 3).
C7_BandLength ==
  LineReturned =>
    /\ \A b \in 1..Len(ret.value.bands) :
         /\ Len(ret.value.bands[b]) = 3 * ret.value.width
         /\ Len(ret.value.bands[b]) % 3 = 0
    /\ Len(ret.value.columns) = 3 * ret.value.width

\* C7 witness: a Latin letter and an ideograph at the Large profile gave
\* two bands of 3 x 72 bytes
C7_Witness_MixedLarge ==
  /\ LineReturned
  /\ LineText = <<65, 20013>>
  /\ LineProfile = FONT_LARGE
  /\ ret.value.width = 72
  /\ Len(ret.value.bands) = 2
  /\ Len(ret.value.bands[2]) = 216

\* bandCount is the least number of 24-pin bands that cover charHeight rows,
\* bands holds that many buffers of 24 pins per column, and the pins of the
\* last band that lie below the glyph cell are blank
BandsCoverHeight ==
  LET h == LineProfile.charHeight
      n == ret.value.bandCount
  IN /\ 24 * n >= h
     /\ 24 * (n - 1) < h
     /\ Len(ret.value.bands) = n
     /\ \A b \in 1..n : Len(ret.value.bands[b]) = 3 * ret.value.width
     /\ \A c \in 0..(ret.value.width - 1) : \A p \in 0..23 :
          24 * (n - 1) + p >= h =>
            BitOf(ret.value.bands[n][3 * c + (p \div 8) + 1], 7 - (p % 8)) = 0

\* C8 as stated: for every text and every profile bandCount equals
\* ceil(charHeight / 24) and bands holds bandCount buffers of 24 pin rows.
C8_Original_EveryText == LineReturned => BandsCoverHeight

\* C8 amended: for every non-empty text and every profile bandCount equals
\* ceil(charHeight / 24) and bands holds exactly bandCount buffers, top to
\* bottom, each 24 pin rows tall (the empty text always gives one band).
C8_BandCountNonEmpty == (LineReturned /\ LineText # <<>>) => BandsCoverHeight

\* C8 witness: a line at charHeight 50 came back with three bands
C8_Witness_ThreeBands ==
  /\ LineReturned
  /\ LineText # <<>>
  /\ LineProfile.charHeight = 50
  /\ ret.value.bandCount = 3
  /\ Len(ret.value.bands) = 3

\* C9: renderLine of the empty string returns width 0, an empty columns
\* buffer and bandCount 1, and neither loads the font nor changes the cache.
C9_EmptyLine ==
  [][(call.op = "renderLine" /\ call.args[1] = <<>> /\ ret.status = "pending") =>
       /\ ret'.status = "ok"
       /\ ret'.value.width = 0
       /\ Len(ret'.value.columns) = 0
       /\ ret'.value.bandCount = 1
       /\ cachedFont' = cachedFont
       /\ glyphCache' = glyphCache]_vars

\* C9 witness: the empty string was rendered at the Large profile while no
\* font was loaded and the font file could not be loaded
C9_Witness_EmptyNoFont ==
  /\ LineReturned
  /\ LineText = <<>>
  /\ LineProfile = FONT_LARGE
  /\ ~cachedFont /\ ~fontFileOk
  /\ ret.value.bandCount = 1

\* C10: in band b, for every column c and pin p in 0..23 (row r = 24 b + p
\* of the full bitmap), bit 7 - p mod 8 of byte floor(p / 8) of the column's
\* 3-byte group is 1 iff r < glyph height and the glyph that occupies
\* column c has its pixel at row r set; all other bits are 0.
C10_PinPacking ==
  (LineReturned /\ LineText # <<>>) =>
    /\ GlyphStart(LineText, LineProfile, Len(LineText) + 1) = ret.value.width
    /\ \A j \in 1..Len(LineText) :
         LET bmp == CachedGlyph(LineText[j], LineProfile)
             start == GlyphStart(LineText, LineProfile, j)
         IN \A x \in 0..(bmp.width - 1) :
              \A b \in 0..(Len(ret.value.bands) - 1) :
                \A p \in 0..23 :
                  LET r == 24 * b + p
                      byte == ret.value.bands[b + 1][3 * (start + x) + (p \div 8) + 1]
                      ink == r < bmp.height /\ bmp.data[r * bmp.width + x + 1] = 1
                  IN /\ byte \in 0..255
                     /\ BitOf(byte, 7 - (p % 8)) = (IF ink THEN 1 ELSE 0)

\* C10 witness: at charHeight 20 an inked bottom-row pixel (row 19) of the
\* first column set bit 4 of the third byte, and pins 20..23 stayed 0
C10_Witness_SmallBottomRow ==
  /\ LineReturned
  /\ LineText = <<65>>
  /\ LineProfile = FONT_SMALL
  /\ CachedGlyph(65, FONT_SMALL).data[19 * 10 + 0 + 1] = 1
  /\ BitOf(ret.value.bands[1][3], 4) = 1
  /\ ret.value.bands[1][3] % 16 = 0

(***************************************************************************)
(* Claims about buildEscpFromBitmapLines, checked under SpecBuild.  The    *)
(* returned stream is decoded again and compared with the input.           *)
(***************************************************************************)
BuildReturned == call.op = "buildEscpFromBitmapLines" /\ ret.status = "ok"

BuildLines == call.args[1]

\* the options of the call: formFeed and initPrinter default to true,
\* pageLines to 0
BuildFormFeed == IF call.args[2] = <<>> THEN TRUE ELSE call.args[2][1]
BuildInitPrinter == IF call.args[3] = <<>> THEN TRUE ELSE call.args[3][1]
BuildPageLines == IF call.args[4] = <<>> THEN 0 ELSE call.args[4][1]

\* where the output of the lines starts and ends in the returned stream
BodyFirst ==
  (IF BuildInitPrinter THEN 2 ELSE 0) + 3 + (IF BuildPageLines > 0 THEN 3 ELSE 0) + 1
BodyLast == Len(ret.value) - (IF BuildFormFeed THEN 1 ELSE 0)

BlankToken == [kind |-> "blank", cols |-> 0, data |-> <<>>]
BadToken == [kind |-> "bad", cols |-> 0, data |-> <<>>]

\* the stream bytes[i..last] decoded into blank lines (CR LF) and bands
\* (CR, ESC * 39 nL nH, 3 x (nL + 256 nH) data bytes, then `after`);
\* decoding stops with a "bad" token at the first byte that fits neither
RECURSIVE Decode(_, _, _, _)
Decode(bytes, i, last, after) ==
  IF i > last THEN <<>>
  ELSE IF i + 1 <= last /\ bytes[i] = 13 /\ bytes[i + 1] = 10
    THEN <<BlankToken>> \o Decode(bytes, i + 2, last, after)
  ELSE IF i + 5 <= last /\ bytes[i] = 13 /\ bytes[i + 1] = 27
          /\ bytes[i + 2] = 42 /\ bytes[i + 3] = 39
    THEN LET k == bytes[i + 4] + 256 * bytes[i + 5]
             dataLast == i + 5 + 3 * k
             tokenLast == dataLast + Len(after)
         IN IF tokenLast <= last /\ SubSeq(bytes, dataLast + 1, tokenLast) = after
              THEN <<[kind |-> "band", cols |-> k,
                      data |-> SubSeq(bytes, i + 6, dataLast)]>>
                     \o Decode(bytes, tokenLast + 1, last, after)
              ELSE <<BadToken>>
  ELSE <<BadToken>>

\* a text that is empty or holds nothing but white space
BlankEntry(entry) ==
  \A i \in 1..Len(entry[1]) :
    entry[1][i] \in {9, 10, 11, 12, 13, 32, 160, 12288}

\* the profile of an entry: its fontSize, Normal (24/12/24) for a bare string
ProfileOf(entry) == IF Len(entry) = 1 THEN FONT_NORMAL ELSE entry[2]

\* ceil(charHeight / 24), as the least n with 24 n >= charHeight
BandsOf(entry) ==
  CHOOSE n \in 1..8 : 24 * n >= ProfileOf(entry).charHeight
                      /\ 24 * (n - 1) < ProfileOf(entry).charHeight

\* the dot width of an entry: cjkWidth per CJK character, asciiWidth per other
RECURSIVE TextDots(_, _)
TextDots(text, fs) ==
  IF text = <<>> THEN 0
  ELSE (IF isCJK(Head(text)) THEN fs.cjkWidth ELSE fs.asciiWidth)
         + TextDots(Tail(text), fs)

\* what the decoded stream of a list of entries has to look like: per blank
\* entry one blank line, per other entry BandsOf bands of TextDots columns
RECURSIVE ExpectedShape(_)
ExpectedShape(lines) ==
  IF lines = <<>> THEN <<>>
  ELSE (IF BlankEntry(Head(lines))
          THEN <<[kind |-> "blank", cols |-> 0]>>
          ELSE [b \in 1..BandsOf(Head(lines)) |->
                  [kind |-> "band", cols |-> TextDots(Head(lines)[1], ProfileOf(Head(lines)))]])
         \o ExpectedShape(Tail(lines))

ShapeOf(tokens) == [t \in 1..Len(tokens) |-> [kind |-> tokens[t].kind, cols |-> tokens[t].cols]]

\* the bytes a list of entries has to take when a band ends in `afterLen` bytes
RECURSIVE ExpectedBodyLength(_, _)
ExpectedBodyLength(lines, afterLen) ==
  IF lines = <<>> THEN 0
  ELSE (IF BlankEntry(Head(lines)) THEN 2
        ELSE BandsOf(Head(lines))
               * (1 + 5 + 3 * TextDots(Head(lines)[1], ProfileOf(Head(lines))) + afterLen))
         + ExpectedBodyLength(Tail(lines), afterLen)

HasPrintableEntry == \E i \in 1..Len(BuildLines) : ~BlankEntry(BuildLines[i])

\* C1 as stated: every band of a non-blank entry is CR, the 5-byte header,
\* 3 x columnCount data bytes and then LF: 1 + 5 + 3 x columnCount + 1 bytes.
C1_Original_LineFeedAfterBand ==
  BuildReturned =>
    /\ ShapeOf(Decode(ret.value, BodyFirst, BodyLast, <<10>>)) = ExpectedShape(BuildLines)
    /\ BodyLast - BodyFirst + 1 = ExpectedBodyLength(BuildLines, 1)

\* C1 amended: every band of a non-blank entry is CR (0D), the 5-byte header
\* ESC * 39 nL nH, the band's 3 x columnCount data bytes and then CR LF
\* (0D 0A): 1 + 5 + 3 x columnCount + 2 bytes, nothing else in between.
C1_BandBytes ==
  BuildReturned =>
    /\ ShapeOf(Decode(ret.value, BodyFirst, BodyLast, <<13, 10>>)) = ExpectedShape(BuildLines)
    /\ BodyLast - BodyFirst + 1 = ExpectedBodyLength(BuildLines, 2)

\* C1 witness: a document with a printable entry was built
C1_Witness_BandEmitted ==
  /\ BuildReturned
  /\ HasPrintableEntry
  /\ \E t \in 1..Len(Decode(ret.value, BodyFirst, BodyLast, <<13, 10>>)) :
       Decode(ret.value, BodyFirst, BodyLast, <<13, 10>>)[t].kind = "band"

\* C2: the stream is, in this order, Initialize (1B 40) iff initPrinter
\* (default true), the line-spacing command 1B 33 18 always, the page-length
\* command iff pageLines > 0, the output of the lines in input order, and
\* Form Feed (0C) as the last byte iff formFeed (default true); no line
\* output precedes the line spacing and nothing follows the Form Feed.
C2_StreamOrder ==
  BuildReturned =>
    LET out == ret.value
        at == IF BuildInitPrinter THEN 2 ELSE 0
    IN /\ Len(out) >= BodyFirst - 1
       /\ BuildInitPrinter <=> (out[1] = 27 /\ out[2] = 64)
       /\ SubSeq(out, at + 1, at + 3) = <<27, 51, 24>>
       /\ BuildPageLines > 0 =>
            (out[at + 4] = 27 /\ out[at + 5] = 67 /\ out[at + 6] \in 1..127)
       /\ BodyLast >= BodyFirst - 1
       /\ ShapeOf(Decode(out, BodyFirst, BodyLast, <<13, 10>>)) = ExpectedShape(BuildLines)
       /\ BuildFormFeed => out[Len(out)] = 12

\* C2 witness: two printable lines were built with initPrinter and formFeed
\* left out and a page length of 44 lines
C2_Witness_AllParts ==
  /\ BuildReturned
  /\ call.args[2] = <<>> /\ call.args[3] = <<>> /\ call.args[4] = <<44>>
  /\ Len(BuildLines) = 2
  /\ ~BlankEntry(BuildLines[1]) /\ ~BlankEntry(BuildLines[2])
  /\ BuildLines[1] # BuildLines[2]
  /\ SubSeq(ret.value, 1, 8) = <<27, 64, 27, 51, 24, 27, 67, 44>>
  /\ ret.value[Len(ret.value)] = 12

\* the number of decoded tokens the entries before entry i account for
RECURSIVE TokensBefore(_, _)
TokensBefore(lines, i) ==
  IF i <= 1 THEN 0
  ELSE TokensBefore(lines, i - 1)
         + (IF BlankEntry(lines[i - 1]) THEN 1 ELSE BandsOf(lines[i - 1]))

\* the pins of the first column of a band, as 24 bits top to bottom
FirstColumnPins(data) ==
  [p \in 0..23 |-> BitOf(data[(p \div 8) + 1], 7 - (p % 8))]

\* rows 24 b .. 24 b + 23 of the first pixel column of the cached glyph of the
\* first character of an entry
FirstColumnRows(entry, b) ==
  LET bmp == CachedGlyph(entry[1][1], ProfileOf(entry))
  IN [p \in 0..23 |->
        IF 24 * b + p < bmp.height /\ bmp.data[(24 * b + p) * bmp.width + 1] = 1
          THEN 1 ELSE 0]

\* every entry is one blank line or its ceil(charHeight / 24) bands, the
\* bands of an entry top to bottom, when a band ends in the bytes `after`
BandsPerEntry(after) ==
  LET tokens == Decode(ret.value, BodyFirst, BodyLast, after)
  IN /\ [t \in 1..Len(tokens) |-> tokens[t].kind]
          = [t \in 1..Len(ExpectedShape(BuildLines)) |-> ExpectedShape(BuildLines)[t].kind]
     /\ \A i \in 1..Len(BuildLines) :
          ~BlankEntry(BuildLines[i]) =>
            \A b \in 0..(BandsOf(BuildLines[i]) - 1) :
              FirstColumnPins(tokens[TokensBefore(BuildLines, i) + b + 1].data)
                = FirstColumnRows(BuildLines[i], b)

\* C3 as stated: a non-blank entry yields exactly ceil(charHeight / 24)
\* graphics commands, top to bottom, each preceded by its own CR and
\* followed by LF (Large: two; a bare string is rendered at Normal: one).
C3_Original_BandsThenLineFeed == BuildReturned => BandsPerEntry(<<10>>)

\* C3 amended: a non-blank entry yields exactly ceil(charHeight / 24)
\* graphics commands, top to bottom, each preceded by its own CR and
\* followed by CR LF (Large: two; a bare string is rendered at Normal: one).
C3_BandsPerLine == BuildReturned => BandsPerEntry(<<13, 10>>)

\* C3 witness: a Large line and a bare string were built into two and one
\* graphics commands
C3_Witness_LargeAndBare ==
  /\ BuildReturned
  /\ BuildLines = << << <<65>>, FONT_LARGE >>, << <<65>> >> >>
  /\ Len(Decode(ret.value, BodyFirst, BodyLast, <<13, 10>>)) = 3
  /\ Decode(ret.value, BodyFirst, BodyLast, <<13, 10>>)[2].cols = 24
  /\ Decode(ret.value, BodyFirst, BodyLast, <<13, 10>>)[3].cols = 12

\* the keys the glyph cache may hold after the call: the characters of the
\* non-blank entries at the profiles of their entries
PrintableKeys ==
  UNION {{KeyString(BuildLines[i][1][j], ProfileOf(BuildLines[i]).charHeight,
                    ProfileOf(BuildLines[i]).asciiWidth, ProfileOf(BuildLines[i]).cjkWidth) :
            j \in 1..Len(BuildLines[i][1])} :
           i \in {n \in 1..Len(BuildLines) : ~BlankEntry(BuildLines[n])}}

\* C4: an entry whose text is empty or only whitespace, at any profile,
\* yields exactly CR LF and no graphics command, and neither the rasterizer
\* nor the glyph cache is used for it.
C4_BlankLines ==
  (call.op = "buildEscpFromBitmapLines" /\ ret.status # "pending") =>
    /\ \A e \in 1..Len(glyphCache) : glyphCache[e].key \in PrintableKeys
    /\ ~HasPrintableEntry =>
         /\ ret.status = "ok"
         /\ ~cachedFont
         /\ SubSeq(ret.value, BodyFirst, BodyLast)
              = [n \in 1..(2 * Len(BuildLines)) |-> IF n % 2 = 1 THEN 13 ELSE 10]
    /\ ret.status = "ok" =>
         \A i \in 1..Len(BuildLines) :
           BlankEntry(BuildLines[i]) =>
             Decode(ret.value, BodyFirst, BodyLast, <<13, 10>>)
               [TokensBefore(BuildLines, i) + 1] = BlankToken

\* C4 witness: a document with a whitespace-only Large entry was built
\* although the font file could not be loaded, and the cache stayed empty
C4_Witness_WhitespaceEntry ==
  /\ BuildReturned
  /\ \E i \in 1..Len(BuildLines) : BuildLines[i] = << <<9, 32, 12288>>, FONT_LARGE >>
  /\ ~fontFileOk
  /\ glyphCache = <<>>

(***************************************************************************)
(* Inputs of renderChar: the code points on both sides of every bound of   *)
(* the six CJK ranges, NUL, TAB, the space, '!', 'A', the ideographic      *)
(* space and an ideograph, at every profile or with no profile, on a cold, *)
(* a preloaded and two warm rasterizers.                                   *)
(***************************************************************************)
CharCodes ==
  {0, 9, 32, 33, 65, 12288, 20013,
   11903, 11904, 40959, 40960,
   63743, 63744, 64255, 64256,
   65071, 65072, 65103, 65104,
   65279, 65280, 65376, 65377,
   65503, 65504, 65510, 65511,
   131071, 131072, 195103, 195104}

CharCalls ==
  {[op |-> "renderChar", args |-> <<c, f>>] : c \in CharCodes, f \in OptionalProfiles}

\* the rasterizer after an earlier renderLine(" 中", FONT_SMALL)
WarmSmall == renderLine(ColdRasterizer, TRUE, <<32, 20013>>, FONT_SMALL)

CharRasterizerStates ==
  RasterizerStates \cup {[cache |-> WarmSmall.cache, font |-> WarmSmall.font]}

InitChar ==
  /\ \E st \in CharRasterizerStates : glyphCache = st.cache /\ cachedFont = st.font
  /\ fontFileOk \in BOOLEAN
  /\ call \in CharCalls
  /\ ret = Pending
  /\ ServicesLoaded

\* the outcome of renderChar as the caller sees it: the GlyphBitmap
\* returned or the Error thrown
CharReturn(r) ==
  IF r.ok THEN Returned(r.bmp) ELSE Thrown("Cannot load font")

\* one call of renderChar(char, fontSize)
RenderCharCall ==
  /\ call.op = "renderChar"
  /\ ret.status = "pending"
  /\ \E r \in {renderChar([cache |-> glyphCache, font |-> cachedFont], fontFileOk,
                           call.args[1], OrNormal(call.args[2]))} :
        /\ ret' = CharReturn(r)
        /\ glyphCache' = r.cache
        /\ cachedFont' = r.font
  /\ UNCHANGED <<fontFileOk, call>>
  /\ UNCHANGED serviceVars

NextChar == RenderCharCall

SpecChar == InitChar /\ [][NextChar]_vars

(***************************************************************************)
(* Claims about renderChar (SpecChar).                                     *)
(***************************************************************************)
CharReturned == call.op = "renderChar" /\ ret.status = "ok"
CharCode == call.args[1]
CharProfile == IF call.args[2] = <<>> THEN FONT_NORMAL ELSE call.args[2][1]

\* the six ranges as the specification lists them
InSixRanges(code) ==
  \E range \in {<<11904, 40959>>, <<63744, 64255>>, <<65072, 65103>>,
                <<131072, 195103>>, <<65280, 65376>>, <<65504, 65510>>} :
     range[1] <= code /\ code <= range[2]

\* C11: the GlyphBitmap returned by renderChar has the profile's charHeight,
\* the profile's cjkWidth when the code point lies in one of the six CJK
\* ranges and its asciiWidth otherwise, and width x height pixels, each 0
\* or 1.
C11_GlyphShape ==
  CharReturned =>
    /\ ret.value.height = CharProfile.charHeight
    /\ ret.value.width =
         IF InSixRanges(CharCode) THEN CharProfile.cjkWidth ELSE CharProfile.asciiWidth
    /\ Len(ret.value.data) = ret.value.width * ret.value.height
    /\ \A i \in 1..Len(ret.value.data) : ret.value.data[i] \in {0, 1}

C11_Witness_SupplementaryCjkSmall ==
  /\ CharReturned
  /\ CharCode = 131072
  /\ call.args[2] = <<FONT_SMALL>>
  /\ ret.value.width = 20
  /\ \E i \in 1..Len(ret.value.data) : ret.value.data[i] = 1

\* C12: a call of renderChar for the space or a code point <= 0x20 that
\* returns, returns an asciiWidth x charHeight bitmap of zero pixels, and
\* the call does not go through outline extraction and scanline fill.
C12_EmptyGlyph ==
  [][(call.op = "renderChar" /\ ret.status = "pending" /\ CharCode <= 32
        /\ ret'.status = "ok")
       => /\ ret'.value.width = CharProfile.asciiWidth
          /\ ret'.value.height = CharProfile.charHeight
          /\ Len(ret'.value.data) = CharProfile.asciiWidth * CharProfile.charHeight
          /\ \A i \in 1..Len(ret'.value.data) : ret'.value.data[i] = 0
          /\ ~renderChar([cache |-> glyphCache, font |-> cachedFont], fontFileOk,
                         CharCode, CharProfile).rasterized]_vars

C12_Witness_TabLargeMiss ==
  /\ CharReturned
  /\ CharCode = 9
  /\ call.args[2] = <<FONT_LARGE>>
  /\ Len(ret.value.data) = 24 * 48
  /\ CacheIndex(glyphCache, KeyString(9, 48, 24, 48)) = Len(glyphCache)

(***************************************************************************)
(* bitmap-font.service.ts: preloadFont.                                    *)
(***************************************************************************)
\* preloadFont as it would be without the try/catch around getFont()
preloadFont_NoCatch(font, fileOk) ==
  IF getFont(font, fileOk).ok
    THEN [ret |-> Returned(TRUE), font |-> TRUE]
    ELSE [ret |-> Thrown("Cannot load font"), font |-> FALSE]

\* preloadFont(): [ret, font]; the Error of getFont() is caught
preloadFont(font, fileOk) ==
  IF getFont(font, fileOk).ok
    THEN [ret |-> Returned(TRUE), font |-> TRUE]
    ELSE [ret |-> Returned(FALSE), font |-> FALSE]

(***************************************************************************)
(* The rasterizer as a service: renderChar, renderLine, clearGlyphCache    *)
(* and preloadFont called in any order, from a process that has just       *)
(* started or whose cache already holds 4095 or 4096 glyphs ('A' rendered  *)
(* first, then filler glyphs of a one-pixel profile).                      *)
(***************************************************************************)
FillerProfile == [charHeight |-> 1, asciiWidth |-> 1, cjkWidth |-> 1]

\* the i-th (character, profile) pair rendered by the earlier calls
EarlierCode(i) == IF i = 1 THEN 65 ELSE 57344 + i
EarlierProfile(i) == IF i = 1 THEN FONT_NORMAL ELSE FillerProfile

\* the cache after renderChar of the first n earlier pairs, n <= 4096
EarlierCache(n) ==
  [i \in 1..n |->
     [key |-> CacheKey(EarlierCode(i), EarlierProfile(i)),
      bmp |-> renderChar([cache |-> <<>>, font |-> TRUE], TRUE,
                         EarlierCode(i), EarlierProfile(i)).bmp]]

ServiceStates ==
  {ColdRasterizer,
   [cache |-> EarlierCache(MAX_CACHE_SIZE - 1), font |-> TRUE],
   [cache |-> EarlierCache(MAX_CACHE_SIZE), font |-> TRUE]}

ServiceCharCalls ==
  {[op |-> "renderChar", args |-> <<65, <<>> >>],
   [op |-> "renderChar", args |-> <<65, <<FONT_SMALL>> >>],
   [op |-> "renderChar", args |-> <<20013, <<>> >>],
   [op |-> "renderChar", args |-> <<32, <<>> >>]}

ServiceLineCalls ==
  {[op |-> "renderLine", args |-> << <<>>, <<>> >>],
   [op |-> "renderLine", args |-> << <<65, 20013>>, <<>> >>]}

InitService ==
  /\ \E st \in ServiceStates : glyphCache = st.cache /\ cachedFont = st.font
  /\ fontFileOk \in BOOLEAN
  /\ call = [op |-> "start", args |-> <<>>]
  /\ ret = Pending
  /\ ServicesLoaded

\* a call of renderChar(char, fontSize)
RenderCharStep ==
  \E c \in ServiceCharCalls :
    \E r \in {renderChar([cache |-> glyphCache, font |-> cachedFont], fontFileOk,
                         c.args[1], OrNormal(c.args[2]))} :
      /\ call' = c
      /\ ret' = CharReturn(r)
      /\ glyphCache' = r.cache
      /\ cachedFont' = r.font
      /\ UNCHANGED fontFileOk
      /\ UNCHANGED serviceVars

\* a call of renderLine(text, fontSize)
RenderLineStep ==
  \E c \in ServiceLineCalls :
    \E r \in {renderLine([cache |-> glyphCache, font |-> cachedFont], fontFileOk,
                         c.args[1], OrNormal(c.args[2]))} :
      /\ call' = c
      /\ ret' = r.ret
      /\ glyphCache' = r.cache
      /\ cachedFont' = r.font
      /\ UNCHANGED fontFileOk
      /\ UNCHANGED serviceVars

\* a call of clearGlyphCache()
ClearGlyphCacheStep ==
  /\ call' = [op |-> "clearGlyphCache", args |-> <<>>]
  /\ ret' = Returned(<<>>)
  /\ glyphCache' = clearGlyphCache(glyphCache)
  /\ UNCHANGED <<cachedFont, fontFileOk>>
  /\ UNCHANGED serviceVars

\* a call of preloadFont()
PreloadFontStep ==
  \E r \in {preloadFont(cachedFont, fontFileOk)} :
    /\ call' = [op |-> "preloadFont", args |-> <<>>]
    /\ ret' = r.ret
    /\ cachedFont' = r.font
    /\ UNCHANGED <<glyphCache, fontFileOk>>
    /\ UNCHANGED serviceVars

\* Between two calls the font file is installed or removed; getFont reads
\* the file again at every call made while cachedFont is null
FontFileStep ==
  /\ fontFileOk' = ~fontFileOk
  /\ UNCHANGED <<glyphCache, cachedFont, call, ret>>
  /\ UNCHANGED serviceVars

NextService ==
  \/ RenderCharStep
  \/ RenderLineStep
  \/ ClearGlyphCacheStep
  \/ PreloadFontStep
  \/ FontFileStep

SpecService == InitService /\ [][NextService]_vars

(***************************************************************************)
(* Claims about the glyph cache and the font (SpecService).                *)
(***************************************************************************)
\* the key of a renderChar call, as the four values it is made of
CallKey(c) ==
  LET p == IF c.args[2] = <<>> THEN FONT_NORMAL ELSE c.args[2][1]
  IN KeyString(c.args[1], p.charHeight, p.asciiWidth, p.cjkWidth)

CachedKeys(cache) == {cache[i].key : i \in 1..Len(cache)}

\* what a process that has just started, with a loadable font, renders for
\* a character at a profile
FreshGlyph(code, fs) == renderChar(ColdRasterizer, TRUE, code, fs).bmp

\* C13: every call of renderChar that returns, returns for the same
\* character and profile the same width, height and pixels, those a fresh
\* process renders: on a cache hit or a miss, after other keys were
\* rendered, after the entry was evicted, after clearGlyphCache.
C13_CacheTransparent ==
  CharReturned => ret.value = FreshGlyph(CharCode, CharProfile)

C13_Witness_RenderedAgainAfterEviction ==
  /\ CharReturned
  /\ call.args = <<65, <<>> >>
  /\ Len(glyphCache) = MAX_CACHE_SIZE
  /\ glyphCache[MAX_CACHE_SIZE].key = KeyString(65, 24, 12, 24)
  /\ glyphCache[MAX_CACHE_SIZE - 1].key = KeyString(20013, 24, 12, 24)
  /\ glyphCache[1].key = KeyString(57347, 1, 1, 1)

\* C14: the cache never holds more than 4096 entries, and a renderChar that
\* inserts a new key while 4096 entries are present removes exactly the
\* oldest-inserted entry: the other 4095 stay, in their order, and the new
\* key is the newest.
C14_FifoEviction ==
  /\ [](Len(glyphCache) <= 4096)
  /\ [][(/\ call'.op = "renderChar"
         /\ ret'.status = "ok"
         /\ Len(glyphCache) = 4096
         /\ CallKey(call') \notin CachedKeys(glyphCache))
        => /\ Len(glyphCache') = 4096
           /\ CachedKeys(glyphCache') =
                (CachedKeys(glyphCache) \ {glyphCache[1].key}) \cup {CallKey(call')}
           /\ glyphCache[1].key \notin CachedKeys(glyphCache')
           /\ SubSeq(glyphCache', 1, 4095) = SubSeq(glyphCache, 2, 4096)
           /\ glyphCache'[4096].key = CallKey(call')]_vars

\* after 4097 distinct pairs ('A', 4095 fillers, then an ideograph) the
\* first-inserted 'A' is absent and the other 4096 are present
C14_Witness_FirstOf4097Gone ==
  /\ call = [op |-> "renderChar", args |-> <<20013, <<>> >>]
  /\ ret.status = "ok"
  /\ Len(glyphCache) = 4096
  /\ KeyString(65, 24, 12, 24) \notin CachedKeys(glyphCache)
  /\ CachedKeys(glyphCache) =
       {KeyString(57344 + i, 1, 1, 1) : i \in 2..4096} \cup {KeyString(20013, 24, 12, 24)}

\* C15: preloadFont() never throws and returns true iff the font is already
\* loaded or can be loaded during the call (it is loaded afterwards), false
\* otherwise; while no font is loaded and the font file cannot be loaded,
\* renderChar and renderLine on a non-empty text throw.
C15_PreloadAndFirstUse ==
  [][/\ (call'.op = "preloadFont" /\ fontFileOk' = fontFileOk)
          => /\ ret'.status = "ok"
             /\ ret'.value = (cachedFont \/ fontFileOk)
             /\ cachedFont' = ret'.value
     /\ (/\ ~cachedFont
         /\ ~fontFileOk
         /\ fontFileOk' = fontFileOk
         /\ \/ call'.op = "renderChar"
            \/ (call'.op = "renderLine" /\ call'.args[1] # <<>>))
          => ret'.status = "throw"]_vars

C15_Witness_PreloadFalse ==
  /\ call.op = "preloadFont"
  /\ ret = Returned(FALSE)
  /\ ~cachedFont
  /\ ~fontFileOk
  /\ glyphCache = <<>>

(***************************************************************************)
(* escp.service.ts: textWidth and padText.  A string is the sequence of    *)
(* its code points, an optional align is <<>> or <<"left">>, <<"right">>,  *)
(* <<"center">>.                                                           *)
(***************************************************************************)
\* WideCode as it would be without the fullwidth forms U+FF00..U+FF60
WideCode_NoFullwidthForms(code) ==
  \/ (code >= 11904 /\ code <= 40959)
  \/ (code >= 63744 /\ code <= 64255)
  \/ (code >= 65072 /\ code <= 65103)
  \/ (code >= 131072 /\ code <= 195103)
  \/ (code >= 65504 /\ code <= 65510)

\* the range test of textWidth (its own copy of the six ranges)
WideCode(code) ==
  \/ (code >= 11904 /\ code <= 40959)
  \/ (code >= 63744 /\ code <= 64255)
  \/ (code >= 65072 /\ code <= 65103)
  \/ (code >= 131072 /\ code <= 195103)
  \/ (code >= 65280 /\ code <= 65376)
  \/ (code >= 65504 /\ code <= 65510)

\* textWidth(text): `width += 2` or `width += 1` per code point
RECURSIVE textWidth(_)
textWidth(text) ==
  IF text = <<>> THEN 0
  ELSE (IF WideCode(Head(text)) THEN 2 ELSE 1) + textWidth(Tail(text))

\* ' '.repeat(n) for n >= 0
Spaces(n) == [i \in 1..n |-> 32]

\* TruncateLoop as it would be if it stopped when the width is reached
RECURSIVE TruncateLoop_BreakAtEqual(_, _, _, _)
TruncateLoop_BreakAtEqual(text, targetWidth, result, current) ==
  IF text = <<>> THEN result
  ELSE IF current + textWidth(<<Head(text)>>) >= targetWidth THEN result
  ELSE TruncateLoop_BreakAtEqual(Tail(text), targetWidth, Append(result, Head(text)),
                                 current + textWidth(<<Head(text)>>))

\* the loop `for (const char of text)` of the truncation: the characters
\* kept, `break` at the first one with current + cw > targetWidth
RECURSIVE TruncateLoop(_, _, _, _)
TruncateLoop(text, targetWidth, result, current) ==
  IF text = <<>> THEN result
  ELSE IF current + textWidth(<<Head(text)>>) > targetWidth THEN result
  ELSE TruncateLoop(Tail(text), targetWidth, Append(result, Head(text)),
                    current + textWidth(<<Head(text)>>))

\* result + ' '.repeat(remaining); String.prototype.repeat throws a
\* RangeError for a negative count
FillTo(result, targetWidth) ==
  IF targetWidth - textWidth(result) < 0
    THEN Thrown("RangeError: Invalid count value")
    ELSE Returned(result \o Spaces(targetWidth - textWidth(result)))

\* CenterLeft as it would be if the odd space went to the left
CenterLeft_RoundUp(padding) == (padding + 1) \div 2

\* `const left = Math.floor(padding / 2)` for padding > 0
CenterLeft(padding) == padding \div 2

\* `align = 'left'` when the argument is left out
OrLeft(alignArg) == IF alignArg = <<>> THEN "left" ELSE alignArg[1]

\* the padding branch of padText (w < targetWidth)
Padded(text, padding, align) ==
  IF align = "right" THEN Spaces(padding) \o text
  ELSE IF align = "center"
    THEN Spaces(CenterLeft(padding)) \o text \o Spaces(padding - CenterLeft(padding))
  ELSE text \o Spaces(padding)

\* padText as it would be without the spaces after a truncation
padText_NoFill(text, targetWidth, alignArg) ==
  IF textWidth(text) >= targetWidth
    THEN Returned(TruncateLoop(text, targetWidth, <<>>, 0))
    ELSE Returned(Padded(text, targetWidth - textWidth(text), OrLeft(alignArg)))

\* padText(text, targetWidth, align): the string returned or the Error
padText(text, targetWidth, alignArg) ==
  IF textWidth(text) >= targetWidth
    THEN FillTo(TruncateLoop(text, targetWidth, <<>>, 0), targetWidth)
    ELSE Returned(Padded(text, targetWidth - textWidth(text), OrLeft(alignArg)))

(***************************************************************************)
(* Inputs of textWidth and padText: every string of up to MaxStrLen code   *)
(* points over the space, 'A' and an ideograph, the strings of the         *)
(* documented examples, one-character strings around every range bound;    *)
(* target widths from -1 to MaxWidth; every align or none.                 *)
(***************************************************************************)
MaxStrLen == 3
MaxWidth == 5

TextChars == {32, 65, 20013}

ExampleTexts ==
  {<<65, 66>>, <<20013, 25991>>, <<65, 66, 67, 68, 69>>, <<20013, 65, 66, 67>>}

PadTexts == Texts(TextChars, MaxStrLen) \cup ExampleTexts

OptionalAligns == {<<>>, <<"left">>, <<"right">>, <<"center">>}

TextCalls ==
  {[op |-> "textWidth", args |-> <<t>>] : t \in PadTexts \cup {<<c>> : c \in CharCodes}}
    \cup {[op |-> "padText", args |-> <<t, w, a>>] :
            t \in PadTexts, w \in -1..MaxWidth, a \in OptionalAligns}

InitText ==
  /\ glyphCache = ColdRasterizer.cache
  /\ cachedFont = ColdRasterizer.font
  /\ fontFileOk \in BOOLEAN
  /\ call \in TextCalls
  /\ ret = Pending
  /\ ServicesLoaded

\* one call of textWidth(text)
TextWidthCall ==
  /\ call.op = "textWidth"
  /\ ret.status = "pending"
  /\ ret' = Returned(textWidth(call.args[1]))
  /\ UNCHANGED <<glyphCache, cachedFont, fontFileOk, call>>
  /\ UNCHANGED serviceVars

\* one call of padText(text, targetWidth, align)
PadTextCall ==
  /\ call.op = "padText"
  /\ ret.status = "pending"
  /\ ret' = padText(call.args[1], call.args[2], call.args[3])
  /\ UNCHANGED <<glyphCache, cachedFont, fontFileOk, call>>
  /\ UNCHANGED serviceVars

NextText ==
  \/ TextWidthCall
  \/ PadTextCall

SpecText == InitText /\ [][NextText]_vars

(***************************************************************************)
(* Claims about textWidth and padText (SpecText).                          *)
(***************************************************************************)
WidthReturned == call.op = "textWidth" /\ ret.status = "ok"
PadReturned == call.op = "padText" /\ ret.status = "ok"
PadText == call.args[1]
PadTarget == call.args[2]
PadAlign == IF call.args[3] = <<>> THEN "left" ELSE call.args[3][1]

\* the width the specification gives a string: 2 per code point in the six
\* ranges, 1 per other code point
Units(s) ==
  2 * Cardinality({i \in 1..Len(s) : InSixRanges(s[i])})
    + Cardinality({i \in 1..Len(s) : ~InSixRanges(s[i])})

Blanks(n) == [i \in 1..n |-> 32]

\* the longest prefix of s that is not wider than w
FittingPrefix(s, w) ==
  SubSeq(s, 1, CHOOSE k \in 0..Len(s) :
                 /\ Units(SubSeq(s, 1, k)) <= w
                 /\ \A j \in (k + 1)..Len(s) : Units(SubSeq(s, 1, j)) > w)

\* C16: textWidth(s) is the sum of 2 per code point in the six ranges (the
\* ranges of isCJK) and 1 per other code point; textWidth("AB") = 2,
\* textWidth("中文") = 4, textWidth("A中") = 3; the width of a string is
\* the sum of the widths of any two parts it is cut into.
C16_TextWidth ==
  WidthReturned =>
    /\ ret.value = Units(call.args[1])
    /\ \A i \in 1..Len(call.args[1]) :
         (textWidth(<<call.args[1][i]>>) = 2) <=> isCJK(call.args[1][i])
    /\ \A k \in 0..Len(call.args[1]) :
         ret.value = textWidth(SubSeq(call.args[1], 1, k))
                       + textWidth(SubSeq(call.args[1], k + 1, Len(call.args[1])))
    /\ call.args[1] = <<65, 66>> => ret.value = 2
    /\ call.args[1] = <<20013, 25991>> => ret.value = 4
    /\ call.args[1] = <<65, 20013>> => ret.value = 3

C16_Witness_MixedIsThree ==
  /\ WidthReturned
  /\ call.args[1] = <<65, 20013>>
  /\ ret.value = 3

\* C17 as the specification states it: padText("中ABC", 3, 'left') is the
\* ideograph followed by one space
C17_Original_CjkThenSpace ==
  /\ (PadReturned /\ call.args = << <<65, 66, 67, 68, 69>>, 3, <<"left">> >>)
       => ret.value = <<65, 66, 67>>
  /\ (PadReturned /\ call.args = << <<20013, 65, 66, 67>>, 3, <<"left">> >>)
       => ret.value = <<20013, 32>>

\* C17: a truncation keeps whole characters only: what padText returns for
\* a string at least as wide as the target is a prefix of the string
\* followed by spaces only; padText("ABCDE", 3, 'left') = "ABC",
\* padText("中ABC", 3, 'left') = "中A" (the ideograph costs 2 and "A" still
\* fits), and padText("中中", 3, 'left') = "中 " (the second ideograph does
\* not fit and is dropped whole).
C17_TruncateWholeChars ==
  /\ (PadReturned /\ Units(PadText) >= PadTarget)
       => \E k \in 0..Len(PadText) :
            /\ Len(ret.value) >= k
            /\ SubSeq(ret.value, 1, k) = SubSeq(PadText, 1, k)
            /\ \A i \in (k + 1)..Len(ret.value) : ret.value[i] = 32
            /\ Units(SubSeq(PadText, 1, k)) + (Len(ret.value) - k) = PadTarget
  /\ (PadReturned /\ call.args = << <<65, 66, 67, 68, 69>>, 3, <<"left">> >>)
       => ret.value = <<65, 66, 67>>
  /\ (PadReturned /\ call.args = << <<20013, 65, 66, 67>>, 3, <<"left">> >>)
       => ret.value = <<20013, 65>>
  /\ (PadReturned /\ call.args = << <<20013, 20013>>, 3, <<"left">> >>)
       => ret.value = <<20013, 32>>

C17_Witness_CjkThenLetter ==
  /\ PadReturned
  /\ call.args = << <<20013, 65, 66, 67>>, 3, <<"left">> >>
  /\ ret.value = <<20013, 65>>

\* C18: for a string narrower than the target padText returns the string
\* with targetWidth - textWidth(s) spaces added: after it for 'left' and
\* for no align, before it for 'right', and for 'center' floor(padding/2)
\* before it and the rest after it.
C18_Padding ==
  (PadReturned /\ Units(PadText) < PadTarget) =>
    LET padding == PadTarget - Units(PadText)
    IN /\ Len(ret.value) = Len(PadText) + padding
       /\ PadAlign = "left" => ret.value = PadText \o Blanks(padding)
       /\ PadAlign = "right" => ret.value = Blanks(padding) \o PadText
       /\ PadAlign = "center" =>
            ret.value = Blanks(padding \div 2) \o PadText
                          \o Blanks(padding - (padding \div 2))
       /\ call.args = << <<65>>, 5, <<"left">> >> => ret.value = <<65, 32, 32, 32, 32>>
       /\ call.args = << <<65>>, 5, <<"right">> >> => ret.value = <<32, 32, 32, 32, 65>>
       /\ call.args = << <<65, 66>>, 5, <<"center">> >> => ret.value = <<32, 65, 66, 32, 32>>

C18_Witness_CenterOdd ==
  /\ PadReturned
  /\ call.args = << <<65, 66>>, 5, <<"center">> >>
  /\ ret.value = <<32, 65, 66, 32, 32>>

\* C19: for targetWidth >= 0 padText returns a string of width exactly
\* targetWidth; for a string at least as wide as the target it is, whatever
\* the align, the longest prefix that fits followed by spaces up to the
\* target, so a string of exactly the target width is returned unchanged;
\* padding the result again at the same width and align returns it
\* unchanged.
C19_ExactWidth ==
  (call.op = "padText" /\ ret.status # "pending" /\ PadTarget >= 0) =>
    /\ ret.status = "ok"
    /\ Units(ret.value) = PadTarget
    /\ Units(PadText) >= PadTarget =>
         ret.value = FittingPrefix(PadText, PadTarget)
                       \o Blanks(PadTarget - Units(FittingPrefix(PadText, PadTarget)))
    /\ Units(PadText) = PadTarget => ret.value = PadText
    /\ padText(ret.value, PadTarget, call.args[3]) = Returned(ret.value)

C19_Witness_TruncatedRightAlign ==
  /\ PadReturned
  /\ call.args = << <<20013, 20013>>, 3, <<"right">> >>
  /\ ret.value = <<20013, 32>>

(***************************************************************************)
(* bitmap-font.service.ts: scanlineFill.  A polygon is a sequence of       *)
(* points <<x, y>>; the x of a crossing is the fraction num/den, den > 0.  *)
(***************************************************************************)
\* poly.map(([x, y]) => [x * ss, y * ss])
ScalePolygon(poly, ss) == [i \in 1..Len(poly) |-> <<poly[i][1] * ss, poly[i][2] * ss>>]

\* the edge from p0 to p1 with its winding direction
EdgeOf(p0, p1) ==
  [x0 |-> p0[1], y0 |-> p0[2], x1 |-> p1[1], y1 |-> p1[2],
   dir |-> IF p0[2] < p1[2] THEN 1 ELSE -1]

\* the edges of one polygon, `poly[i]` to `poly[(i + 1) % poly.length]`,
\* without the horizontal ones
PolygonEdges(poly) ==
  SelectSeq([i \in 1..Len(poly) |-> EdgeOf(poly[i], poly[(i % Len(poly)) + 1])],
            LAMBDA e : e.y0 # e.y1)

\* the loop `for (const poly of ssPolygons)`
RECURSIVE AllEdges(_, _)
AllEdges(polygons, ss) ==
  IF polygons = <<>> THEN <<>>
  ELSE PolygonEdges(ScalePolygon(Head(polygons), ss)) \o AllEdges(Tail(polygons), ss)

\* `(y0 <= scanY && y1 > scanY) || (y1 <= scanY && y0 > scanY)` for
\* scanY = y + 0.5, in halves
Intersects(e, y) ==
  \/ (2 * e.y0 <= 2 * y + 1 /\ 2 * e.y1 > 2 * y + 1)
  \/ (2 * e.y1 <= 2 * y + 1 /\ 2 * e.y0 > 2 * y + 1)

\* `x0 + ((scanY - y0) / (y1 - y0)) * (x1 - x0)` as a fraction
CrossingOf(e, y) ==
  IF e.y1 > e.y0
    THEN [num |-> e.x0 * 2 * (e.y1 - e.y0) + (2 * y + 1 - 2 * e.y0) * (e.x1 - e.x0),
          den |-> 2 * (e.y1 - e.y0), dir |-> e.dir]
    ELSE [num |-> e.x0 * 2 * (e.y0 - e.y1) + (2 * e.y0 - 2 * y - 1) * (e.x1 - e.x0),
          den |-> 2 * (e.y0 - e.y1), dir |-> e.dir]

\* the loop `for (const edge of edges)` of one scanline
RECURSIVE Crossings(_, _)
Crossings(edges, y) ==
  IF edges = <<>> THEN <<>>
  ELSE (IF Intersects(Head(edges), y) THEN <<CrossingOf(Head(edges), y)>> ELSE <<>>)
         \o Crossings(Tail(edges), y)

\* a.x - b.x < 0
XLess(a, b) == a.num * b.den < b.num * a.den

\* `crossings.sort((a, b) => a.x - b.x)`: ascending and stable
RECURSIVE InsertCrossing(_, _)
InsertCrossing(sorted, c) ==
  IF sorted = <<>> THEN <<c>>
  ELSE IF XLess(c, sorted[Len(sorted)])
    THEN Append(InsertCrossing(SubSeq(sorted, 1, Len(sorted) - 1), c), sorted[Len(sorted)])
    ELSE Append(sorted, c)

RECURSIVE SortCrossings(_, _)
SortCrossings(crossings, sorted) ==
  IF crossings = <<>> THEN sorted
  ELSE SortCrossings(Tail(crossings), InsertCrossing(sorted, Head(crossings)))

\* Math.ceil and Math.floor of a fraction
CeilX(c) == -((-c.num) \div c.den)
FloorX(c) == c.num \div c.den

\* FillSpans as it would be with the even-odd rule
RECURSIVE FillSpans_EvenOdd(_, _, _, _)
FillSpans_EvenOdd(crossings, i, winding, ssW) ==
  IF i > Len(crossings) THEN {}
  ELSE (IF (winding + 1) % 2 # 0 /\ i + 1 <= Len(crossings)
          THEN Max(0, CeilX(crossings[i]))..Min(ssW - 1, FloorX(crossings[i + 1]))
          ELSE {})
         \cup FillSpans_EvenOdd(crossings, i + 1, winding + 1, ssW)

\* the loop `for (let i = 0; i < crossings.length; i++)`: the x of the
\* sub-pixels set on one scanline, `winding` being the sum before crossing i
RECURSIVE FillSpans(_, _, _, _)
FillSpans(crossings, i, winding, ssW) ==
  IF i > Len(crossings) THEN {}
  ELSE (IF winding + crossings[i].dir # 0 /\ i + 1 <= Len(crossings)
          THEN Max(0, CeilX(crossings[i]))..Min(ssW - 1, FloorX(crossings[i + 1]))
          ELSE {})
         \cup FillSpans(crossings, i + 1, winding + crossings[i].dir, ssW)

\* the sorted crossings of scanline y
ScanlineCrossings(edges, y) == SortCrossings(Crossings(edges, y), <<>>)

\* the loop `for (let y = 0; y < ssH; y++)`: the sub-pixels <<x, y>> set in
\* ssBitmap
SsFill(polygons, width, height, ss) ==
  UNION {{<<x, y>> : x \in FillSpans(ScanlineCrossings(AllEdges(polygons, ss), y),
                                     1, 0, width * ss)} :
         y \in 0..(height * ss - 1)}

\* the downsampling: a pixel is 1 when any of its ss x ss sub-pixels is set
Downsample(filled, width, height, ss) ==
  [i \in 1..(width * height) |->
     IF \E sy \in 0..(ss - 1), sx \in 0..(ss - 1) :
          <<((i - 1) % width) * ss + sx, ((i - 1) \div width) * ss + sy>> \in filled
       THEN 1 ELSE 0]

\* `supersample: number = 3`
OrThree(supersampleArg) == IF supersampleArg = <<>> THEN 3 ELSE supersampleArg[1]

\* scanlineFill(polygons, width, height, supersample)
scanlineFill(polygons, width, height, ss) ==
  Downsample(SsFill(polygons, width, height, ss), width, height, ss)

(***************************************************************************)
(* Inputs of scanlineFill: up to MaxPolygons outlines with integer         *)
(* vertices and vertical, horizontal or 45-degree edges (their crossings   *)
(* are whole or half sub-pixels, exact in floating point): overlapping     *)
(* squares of both directions, a square wider than the bitmap, a triangle, *)
(* a zero-width sliver, a point; on a 5 x 2 and a 3 x 3 bitmap.            *)
(***************************************************************************)
MaxPolygons == 2

Square(x0, y0, x1, y1) == <<<<x0, y0>>, <<x1, y0>>, <<x1, y1>>, <<x0, y1>>>>
SquareReversed(x0, y0, x1, y1) == <<<<x0, y1>>, <<x1, y1>>, <<x1, y0>>, <<x0, y0>>>>

Outlines ==
  {Square(0, 0, 3, 2),
   Square(1, 0, 4, 2),
   SquareReversed(1, 0, 4, 2),
   Square(-1, 1, 6, 2),
   Square(4, 0, 5, 1),
   <<<<0, 0>>, <<2, 2>>, <<0, 2>>>>,
   <<<<2, 0>>, <<2, 2>>>>,
   <<<<1, 1>>>>}

OutlineLists == UNION {[1..n -> Outlines] : n \in 0..MaxPolygons}

FillCalls ==
  {[op |-> "scanlineFill", args |-> <<p, size[1], size[2], <<>> >>] :
     p \in OutlineLists, size \in {<<5, 2>>, <<3, 3>>}}

InitFill ==
  /\ glyphCache = ColdRasterizer.cache
  /\ cachedFont = ColdRasterizer.font
  /\ fontFileOk \in BOOLEAN
  /\ call \in FillCalls
  /\ ret = Pending
  /\ ServicesLoaded

\* one call of scanlineFill(polygons, width, height)
ScanlineFillCall ==
  /\ call.op = "scanlineFill"
  /\ ret.status = "pending"
  /\ ret' = Returned(scanlineFill(call.args[1], call.args[2], call.args[3],
                                  OrThree(call.args[4])))
  /\ UNCHANGED <<glyphCache, cachedFont, fontFileOk, call>>
  /\ UNCHANGED serviceVars

NextFill == ScanlineFillCall

SpecFill == InitFill /\ [][NextFill]_vars

(***************************************************************************)
(* Claims about scanlineFill (SpecFill).                                   *)
(***************************************************************************)
FillReturned == call.op = "scanlineFill" /\ ret.status = "ok"
FillWidth == call.args[2]
FillHeight == call.args[3]

\* the crossings of sub-pixel row y, as scanlineFill processes them
RowCrossings(y) == ScanlineCrossings(AllEdges(call.args[1], 3), y)

\* the running sum of the directions after crossing i of the row
RunningSum(cs, i) ==
  Cardinality({j \in 1..i : cs[j].dir = 1}) - Cardinality({j \in 1..i : cs[j].dir = -1})

\* sub-pixel x lies between crossing i and crossing i + 1 of the row
InSpan(cs, i, x) ==
  /\ cs[i].num <= x * cs[i].den
  /\ x * cs[i + 1].den <= cs[i + 1].num

\* the rule of the specification for sub-pixel x of a row with crossings cs
FilledByRule(cs, x) ==
  \E i \in 1..(Len(cs) - 1) : RunningSum(cs, i) # 0 /\ InSpan(cs, i, x)

\* the sub-pixels <<x, y>> the rule fills
RuleFill ==
  UNION {UNION {{<<x, y>> : x \in {x \in 0..(3 * FillWidth - 1) : FilledByRule(cs, x)}} :
                cs \in {RowCrossings(y)}} :
         y \in 0..(3 * FillHeight - 1)}

\* every edge of the outlines that meets row y gives one crossing of cs,
\* with +1 when the edge descends and -1 when it ascends; none is horizontal
DirectionsByRule(edges, cs, y) ==
  LET met == {k \in 1..Len(edges) :
                \/ (edges[k].y0 <= y /\ y < edges[k].y1)
                \/ (edges[k].y1 <= y /\ y < edges[k].y0)}
  IN /\ Len(cs) = Cardinality(met)
     /\ Cardinality({j \in 1..Len(cs) : cs[j].dir = 1})
          = Cardinality({k \in met : edges[k].y0 < edges[k].y1})
     /\ \A k \in 1..Len(edges) : edges[k].y0 # edges[k].y1

\* the crossings cs are in ascending x
Ascending(cs) ==
  \A i \in 1..(Len(cs) - 1) : cs[i].num * cs[i + 1].den <= cs[i + 1].num * cs[i].den

\* every sub-pixel of row y in `filled` lies between the first and the last
\* crossing of the row
WithinCrossings(filled, cs, y) ==
  \A p \in filled :
    p[2] = y => /\ cs # <<>>
                /\ cs[1].num <= p[1] * cs[1].den
                /\ p[1] * cs[Len(cs)].den <= cs[Len(cs)].num

\* C20: on every supersampled scanline the crossings are in ascending x, a
\* sub-pixel is set iff it lies between two consecutive crossings with a
\* non-zero running sum of directions (+1 descending, -1 ascending, no
\* horizontal edge) after the left one; no sub-pixel left of the first or
\* right of the last crossing is set; the bitmap returned has a 1 exactly
\* where one of the 3 x 3 sub-pixels of the pixel is set.
C20_NonZeroWinding ==
  FillReturned =>
    \A filled \in {SsFill(call.args[1], FillWidth, FillHeight, 3)} :
      \A edges \in {AllEdges(call.args[1], 3)} :
        /\ filled = RuleFill
        /\ \A y \in 0..(3 * FillHeight - 1) :
             \A cs \in {RowCrossings(y)} :
               /\ DirectionsByRule(edges, cs, y)
               /\ Ascending(cs)
               /\ WithinCrossings(filled, cs, y)
        /\ \A px \in 0..(FillWidth - 1), py \in 0..(FillHeight - 1) :
             (ret.value[py * FillWidth + px + 1] = 1)
               <=> \E sx \in 0..2, sy \in 0..2 : <<3 * px + sx, 3 * py + sy>> \in filled
        /\ \A i \in 1..Len(ret.value) : ret.value[i] \in {0, 1}
        /\ Len(ret.value) = FillWidth * FillHeight

\* two squares of the same direction that overlap in columns 1 and 2: the
\* overlap is filled
C20_Witness_OverlapFilled ==
  /\ FillReturned
  /\ call.args = <<<<Square(0, 0, 3, 2), Square(1, 0, 4, 2)>>, 5, 2, <<>> >>
  /\ ret.value = <<1, 1, 1, 1, 1, 1, 1, 1, 1, 1>>

(***************************************************************************)
(* Claims about the eviction order and the cache keys.                     *)
(***************************************************************************)
\* the call just made is renderChar and it returned
ServiceCharReturned == call.op = "renderChar" /\ ret.status = "ok"

\* C21: a renderChar answered from the cache leaves the cache as it was,
\* entries and order; and when the oldest entry K of a full cache has just
\* been rendered again, the next renderChar of a key not in the cache evicts
\* K and no other entry: the 4095 younger entries stay, in their order, and
\* the new key is the youngest.
C21_InsertionOrderEviction ==
  [][/\ (/\ call'.op = "renderChar"
          /\ CallKey(call') \in CachedKeys(glyphCache))
         => (ret'.status = "ok" /\ glyphCache' = glyphCache)
     /\ (/\ ServiceCharReturned
          /\ Len(glyphCache) = MAX_CACHE_SIZE
          /\ glyphCache[1].key = CallKey(call)
          /\ call'.op = "renderChar"
          /\ ret'.status = "ok"
          /\ CallKey(call') \notin CachedKeys(glyphCache))
         => (/\ CallKey(call) \notin CachedKeys(glyphCache')
             /\ SubSeq(glyphCache', 1, MAX_CACHE_SIZE - 1)
                  = SubSeq(glyphCache, 2, MAX_CACHE_SIZE)
             /\ glyphCache'[MAX_CACHE_SIZE].key = CallKey(call'))]_vars

\* 'A', the oldest entry of a full cache, was rendered again and then an
\* ideograph that was not cached: 'A' is gone, the oldest filler is now first
C21_Witness_OldestRerenderedThenEvicted ==
  /\ call = [op |-> "renderChar", args |-> <<20013, <<>> >>]
  /\ ret.status = "ok"
  /\ Len(glyphCache) = MAX_CACHE_SIZE
  /\ glyphCache[1].key = KeyString(57346, 1, 1, 1)
  /\ glyphCache[MAX_CACHE_SIZE].key = KeyString(20013, 24, 12, 24)
  /\ KeyString(65, 24, 12, 24) \notin CachedKeys(glyphCache)

(***************************************************************************)
(* renderChar called again and again in a process that has just started,   *)
(* with a loadable font, for characters and profiles that differ in one    *)
(* component: the profile omitted or given, and one-pixel profiles that    *)
(* differ in the height, the ASCII width or the CJK width alone.           *)
(***************************************************************************)
TinyProfile(h, a, c) == [charHeight |-> h, asciiWidth |-> a, cjkWidth |-> c]

KeyProfiles ==
  {TinyProfile(1, 1, 1), TinyProfile(11, 1, 1), TinyProfile(1, 11, 1),
   TinyProfile(1, 1, 11)}

KeyCalls ==
  {[op |-> "renderChar", args |-> <<65, <<>> >>],
   [op |-> "renderChar", args |-> <<65, <<FONT_NORMAL>> >>],
   [op |-> "renderChar", args |-> <<66, <<TinyProfile(1, 1, 1)>> >>]}
  \cup {[op |-> "renderChar", args |-> <<65, <<p>> >>] : p \in KeyProfiles}

InitKeys ==
  /\ glyphCache = <<>>
  /\ cachedFont = FALSE
  /\ fontFileOk = TRUE
  /\ call = [op |-> "start", args |-> <<>>]
  /\ ret = Pending
  /\ ServicesLoaded

\* a call of renderChar(char, fontSize)
RenderKeyedChar ==
  \E c \in KeyCalls :
    \E r \in {renderChar([cache |-> glyphCache, font |-> cachedFont], fontFileOk,
                         c.args[1], OrNormal(c.args[2]))} :
      /\ call' = c
      /\ ret' = CharReturn(r)
      /\ glyphCache' = r.cache
      /\ cachedFont' = r.font
      /\ UNCHANGED fontFileOk
      /\ UNCHANGED serviceVars

NextKeys == RenderKeyedChar

SpecKeys == InitKeys /\ [][NextKeys]_vars

(***************************************************************************)
(* Claims about the cache keys (SpecKeys).                                 *)
(***************************************************************************)
\* the two calls have the same character and equal values of charHeight,
\* asciiWidth and cjkWidth, an omitted profile counting as 24/12/24
SameValues(c1, c2) ==
  /\ c1.args[1] = c2.args[1]
  /\ OrNormal(c1.args[2]).charHeight = OrNormal(c2.args[2]).charHeight
  /\ OrNormal(c1.args[2]).asciiWidth = OrNormal(c2.args[2]).asciiWidth
  /\ OrNormal(c1.args[2]).cjkWidth = OrNormal(c2.args[2]).cjkWidth

\* the positions of the cache entries that belong to a call's character and
\* profile values
EntriesOf(c, cache) == {i \in 1..Len(cache) : cache[i].key = CallKey(c)}

\* calls whose characters are digits and ':' themselves, at profiles whose
\* digits run together when written side by side
KeyProbes ==
  KeyCalls \cup
  {[op |-> "renderChar", args |-> <<code, <<p>> >>] :
     code \in {49, 58}, p \in KeyProfiles \cup {TinyProfile(11, 11, 1),
                                                  TinyProfile(1, 11, 11),
                                                  TinyProfile(1, 1, 1111)}}

\* equal keys exactly for equal characters and profile values
ProbeKeysAgreeWithValues ==
  \A c1 \in KeyProbes : \A c2 \in KeyProbes :
    (CacheKey(c1.args[1], OrNormal(c1.args[2]))
       = CacheKey(c2.args[1], OrNormal(c2.args[2])))
    <=> SameValues(c1, c2)

\* C22: two renderChar calls have the same key iff they have the same
\* character and equal charHeight, asciiWidth and cjkWidth (an omitted profile
\* is 24/12/24).  Of two consecutive calls, the second is served by the very
\* entry of the first, which it leaves as it is, when the values are equal;
\* when they differ in the character or in one number, the second is served
\* by an entry of its own at another position.
C22_SameEntryIffSameValues ==
  /\ []ProbeKeysAgreeWithValues
  /\ [][(ServiceCharReturned /\ call'.op = "renderChar")
         => /\ ret'.status = "ok"
            /\ Cardinality(EntriesOf(call, glyphCache)) = 1
            /\ Cardinality(EntriesOf(call', glyphCache')) = 1
            /\ \A i \in EntriesOf(call', glyphCache') :
                 glyphCache'[i].bmp = ret'.value
            /\ SameValues(call, call')
                 => /\ glyphCache' = glyphCache
                    /\ ret'.value = ret.value
            /\ ~SameValues(call, call')
                 => /\ EntriesOf(call', glyphCache') \cap EntriesOf(call, glyphCache) = {}
                    /\ EntriesOf(call, glyphCache') = EntriesOf(call, glyphCache)
                    /\ \A i \in EntriesOf(call, glyphCache) :
                         glyphCache'[i] = glyphCache[i]]_vars

\* 'A' was rendered without a profile, then at the four one-pixel profiles,
\* then with the Normal profile given: five entries, the first one served
\* the last call
C22_Witness_ExplicitNormalHitsOmitted ==
  /\ call = [op |-> "renderChar", args |-> <<65, <<FONT_NORMAL>> >>]
  /\ ret.status = "ok"
  /\ Len(glyphCache) = 5
  /\ glyphCache[1].key = KeyString(65, 24, 12, 24)
  /\ ret.value = glyphCache[1].bmp
  /\ {glyphCache[i].key : i \in 2..5} =
       {KeyString(65, 1, 1, 1), KeyString(65, 11, 1, 1),
        KeyString(65, 1, 11, 1), KeyString(65, 1, 1, 11)}

(***************************************************************************)
(* Claims about the width of a line and the place of its glyphs (SpecLine). *)
(***************************************************************************)
\* the cell width of a character: cjkWidth in the six ranges, else asciiWidth
CellWidth(code, fs) == IF InSixRanges(code) THEN fs.cjkWidth ELSE fs.asciiWidth

\* the sum of the cell widths of the first n characters
RECURSIVE CellSum(_, _, _)
CellSum(text, fs, n) ==
  IF n = 0 THEN 0 ELSE CellSum(text, fs, n - 1) + CellWidth(text[n], fs)

\* the 3-byte group of column x of a glyph in the band that starts at row top
PinGroup(bmp, x, top) ==
  [k \in 1..3 |->
     LET Ink(p) == /\ top + p < bmp.height
                   /\ bmp.data[(top + p) * bmp.width + x + 1] = 1
         Bit(p) == IF Ink(p) THEN 2 ^ (7 - (p % 8)) ELSE 0
         first == 8 * (k - 1)
     IN Bit(first) + Bit(first + 1) + Bit(first + 2) + Bit(first + 3)
          + Bit(first + 4) + Bit(first + 5) + Bit(first + 6) + Bit(first + 7)]

\* the columns from `start` on, in every band, hold the glyph bmp
GlyphAt(bands, bmp, start) ==
  \A b \in 1..Len(bands) : \A x \in 0..(bmp.width - 1) :
    SubSeq(bands[b], 3 * (start + x) + 1, 3 * (start + x) + 3)
      = PinGroup(bmp, x, 24 * (b - 1))

\* C23: the width of a rendered non-empty line is the sum of the cell widths
\* of its characters (cjkWidth for a CJK character, asciiWidth otherwise,
\* nothing between glyphs), and the i-th glyph fills exactly the columns from
\* the sum of the cell widths before it up to that sum plus its own width.
C23_WidthAndGlyphColumns ==
  (LineReturned /\ LineText # <<>>) =>
    /\ ret.value.width = CellSum(LineText, LineProfile, Len(LineText))
    /\ \A j \in 1..Len(LineText) :
         \A bmp \in {FreshGlyph(LineText[j], LineProfile)} :
           /\ bmp.width = CellWidth(LineText[j], LineProfile)
           /\ GlyphAt(ret.value.bands, bmp, CellSum(LineText, LineProfile, j - 1))

\* an ideograph and a Latin letter at the Normal profile: 24 + 12 columns,
\* the bottom-left pixel of the letter is pin 23 of column 24
C23_Witness_LetterAfterIdeograph ==
  /\ LineReturned
  /\ LineText = <<20013, 65>>
  /\ LineProfile = FONT_NORMAL
  /\ ret.value.width = 36
  /\ ret.value.bands[1][3 * 24 + 3] % 2 = 1

(***************************************************************************)
(* escp.service.ts: cmdAdvancePaper, ESC J n in chunks of at most 255.     *)
(***************************************************************************)
\* cmdAdvancePaper as it would be with one ESC J command for the whole
\* distance, the byte keeping the low 8 bits
cmdAdvancePaper_SingleCommand(n) ==
  IF n > 0 THEN <<ESC, 74, n % 256>> ELSE <<>>

\* the loop `while (remaining > 0)`: one command of min(remaining, 255) per
\* turn, Buffer.concat of the parts
RECURSIVE cmdAdvancePaper(_)
cmdAdvancePaper(n) ==
  IF n > 0
    THEN <<ESC, 74, Min(n, 255)>> \o cmdAdvancePaper(n - Min(n, 255))
    ELSE <<>>

\* the largest distance asked for, in 1/180 inch
MaxAdvance == 600

AdvanceCalls == {[op |-> "cmdAdvancePaper", args |-> <<n>>] : n \in -3..MaxAdvance}

InitAdvance ==
  /\ glyphCache = <<>>
  /\ cachedFont = FALSE
  /\ fontFileOk \in BOOLEAN
  /\ call \in AdvanceCalls
  /\ ret = Pending
  /\ ServicesLoaded

\* one call of cmdAdvancePaper (pure)
CmdAdvancePaperCall ==
  /\ call.op = "cmdAdvancePaper"
  /\ ret.status = "pending"
  /\ ret' = Returned(cmdAdvancePaper(call.args[1]))
  /\ UNCHANGED <<glyphCache, cachedFont, fontFileOk, call>>
  /\ UNCHANGED serviceVars

NextAdvance == CmdAdvancePaperCall

SpecAdvance == InitAdvance /\ [][NextAdvance]_vars

(***************************************************************************)
(* Claims about cmdAdvancePaper (SpecAdvance).                             *)
(***************************************************************************)
AdvanceReturned == call.op = "cmdAdvancePaper" /\ ret.status = "ok"

\* the sum of the third byte of every 3-byte command of a stream
RECURSIVE AdvanceTotal(_)
AdvanceTotal(out) ==
  IF Len(out) < 3 THEN 0 ELSE out[3] + AdvanceTotal(SubSeq(out, 4, Len(out)))

\* C24: for n >= 1 cmdAdvancePaper(n) is ceil(n / 255) commands 1B 4A adv,
\* at least one, each with 1 <= adv <= 255, all but the last with adv = 255,
\* and the advances sum to n; for n <= 0 it is empty.
C24_AdvanceChunks ==
  AdvanceReturned =>
    \A n \in {call.args[1]} : \A out \in {ret.value} :
      /\ n <= 0 => out = <<>>
      /\ n >= 1 =>
           /\ Len(out) % 3 = 0
           /\ \A k \in {Len(out) \div 3} :
                /\ k >= 1
                /\ 255 * k >= n
                /\ 255 * (k - 1) < n
                /\ \A i \in 1..k :
                     /\ out[3 * i - 2] = 27
                     /\ out[3 * i - 1] = 74
                     /\ out[3 * i] \in 1..255
                     /\ i < k => out[3 * i] = 255
           /\ AdvanceTotal(out) = n

\* 511 = 255 + 255 + 1: three commands, the last of one step
C24_Witness_ThreeCommands ==
  /\ AdvanceReturned
  /\ call.args[1] = 511
  /\ ret.value = <<27, 74, 255, 27, 74, 255, 27, 74, 1>>

(***************************************************************************)
(* escp.service.ts: the legacy text-mode builder buildEscpFromLines.       *)
(***************************************************************************)
FS == 28
SI == 15
DC2 == 18

cmdChineseOn == <<FS, 38>>

cmdChineseOff == <<FS, 46>>

cmdCondensedOn == <<SI>>

cmdCondensedOff == <<DC2>>

\* iconv.encode(char, 'big5') of one character: an ASCII character is its own
\* byte, an ideograph is the two bytes of its Big5 code (the rows of the
\* table for the ideographs used here), a character without a Big5 code is
\* the replacement '?'
Big5Bytes(code) ==
  IF code < 128 THEN <<code>>
  ELSE IF code = 20013 THEN <<164, 164>>
  ELSE IF code = 25991 THEN <<164, 229>>
  ELSE <<63>>

RECURSIVE encodeBig5(_)
encodeBig5(text) ==
  IF text = <<>> THEN <<>> ELSE Big5Bytes(Head(text)) \o encodeBig5(Tail(text))

encodeText(text) == encodeBig5(text)

\* the commands pushed before the lines (lines 516-536)
LegacyPrologue(initPrinter, enableChinese, lineSpacing, pageLines, condensed) ==
  (IF initPrinter THEN cmdInit ELSE <<>>)
    \o (IF enableChinese THEN cmdChineseOn ELSE <<>>)
    \o cmdLineSpacing(lineSpacing)
    \o (IF pageLines > 0 THEN cmdPageLength(pageLines) ELSE <<>>)
    \o (IF condensed THEN cmdCondensedOn ELSE <<>>)

\* the loop `for (const line of lines)`: encodeText(line), cmdCRLF()
RECURSIVE LegacyLines(_)
LegacyLines(lines) ==
  IF lines = <<>> THEN <<>>
  ELSE encodeText(Head(lines)) \o cmdCRLF \o LegacyLines(Tail(lines))

\* LegacyEpilogue as it would be with Chinese mode cancelled before the
\* condensed mode
LegacyEpilogue_ChineseOffFirst(condensed, enableChinese, formFeed) ==
  (IF enableChinese THEN cmdChineseOff ELSE <<>>)
    \o (IF condensed THEN cmdCondensedOff ELSE <<>>)
    \o (IF formFeed THEN cmdFF ELSE <<>>)

\* the commands pushed after the lines (lines 543-553)
LegacyEpilogue(condensed, enableChinese, formFeed) ==
  (IF condensed THEN cmdCondensedOff ELSE <<>>)
    \o (IF enableChinese THEN cmdChineseOff ELSE <<>>)
    \o (IF formFeed THEN cmdFF ELSE <<>>)

\* buildEscpFromLines({lines, lineSpacing = 24, condensed = false,
\* formFeed = true, initPrinter = true, enableChinese = true, pageLines = 0});
\* each option is <<>> when left out, <<v>> when given
buildEscpFromLines(lines, lineSpacingArg, condensedArg, formFeedArg, initPrinterArg, enableChineseArg, pageLinesArg) ==
  LegacyPrologue(OrDefault(initPrinterArg, TRUE), OrDefault(enableChineseArg, TRUE),
                 OrDefault(lineSpacingArg, 24), OrDefault(pageLinesArg, 0),
                 OrDefault(condensedArg, FALSE))
    \o LegacyLines(lines)
    \o LegacyEpilogue(OrDefault(condensedArg, FALSE), OrDefault(enableChineseArg, TRUE),
                      OrDefault(formFeedArg, TRUE))

\* the largest number of text lines of a document
MaxTextLines == 2

LegacyTexts == {<<>>, <<65>>, <<20013, 65>>}

LegacyDocuments == UNION {[1..n -> LegacyTexts] : n \in 0..MaxTextLines}

OptionalLineSpacings == {<<>>, <<0>>, <<300>>}

OptionalLegacyPageLines == {<<>>, <<0>>, <<44>>, <<200>>}

LegacyCalls ==
  {[op |-> "buildEscpFromLines", args |-> <<d, ls, cd, ff, ip, ec, pl>>] :
     d \in LegacyDocuments, ls \in OptionalLineSpacings, cd \in OptionalBooleans,
     ff \in OptionalBooleans, ip \in OptionalBooleans, ec \in OptionalBooleans,
     pl \in OptionalLegacyPageLines}

InitLegacy ==
  /\ glyphCache = <<>>
  /\ cachedFont = FALSE
  /\ fontFileOk = TRUE
  /\ call \in LegacyCalls
  /\ ret = Pending
  /\ ServicesLoaded

\* one call of buildEscpFromLines (pure)
BuildEscpFromLinesCall ==
  /\ call.op = "buildEscpFromLines"
  /\ ret.status = "pending"
  /\ ret' = Returned(buildEscpFromLines(call.args[1], call.args[2], call.args[3],
                                        call.args[4], call.args[5], call.args[6],
                                        call.args[7]))
  /\ UNCHANGED <<glyphCache, cachedFont, fontFileOk, call>>
  /\ UNCHANGED serviceVars

NextLegacy == BuildEscpFromLinesCall

SpecLegacy == InitLegacy /\ [][NextLegacy]_vars

(***************************************************************************)
(* Claims about buildEscpFromLines (SpecLegacy).                           *)
(***************************************************************************)
LegacyReturned == call.op = "buildEscpFromLines" /\ ret.status = "ok"

\* the value of an option: the one given, else its default
Given(arg, default) == IF arg = <<>> THEN default ELSE arg[1]

LegacyCondensed == Given(call.args[3], FALSE)
LegacyFormFeed == Given(call.args[4], TRUE)
LegacyInit == Given(call.args[5], TRUE)
LegacyChinese == Given(call.args[6], TRUE)
LegacyPageLines == Given(call.args[7], 0)

\* the bytes of a stream when the part is present, nothing otherwise
Iff(present, bytes) == IF present THEN bytes ELSE <<>>

\* every line's encoded text followed by CR LF, in order
RECURSIVE TextLines(_, _)
TextLines(lines, i) ==
  IF i > Len(lines) THEN <<>>
  ELSE encodeText(lines[i]) \o <<13, 10>> \o TextLines(lines, i + 1)

\* the first position at which the bytes `part` occur in the stream, 0 if none
FirstAt(out, part) ==
  IF \E i \in 1..(Len(out) - Len(part) + 1) : SubSeq(out, i, i + Len(part) - 1) = part
    THEN CHOOSE i \in 1..(Len(out) - Len(part) + 1) :
           /\ SubSeq(out, i, i + Len(part) - 1) = part
           /\ \A j \in 1..(i - 1) : SubSeq(out, j, j + Len(part) - 1) # part
    ELSE 0

\* C25: the stream of buildEscpFromLines is, in this order: ESC @ (iff
\* initPrinter), FS & (iff enableChinese), ESC 3 n, ESC C n (iff pageLines >
\* 0), SI (iff condensed), every line's encoded text followed by CR LF, DC2
\* (iff condensed was switched on), FS . (iff Chinese mode was switched on),
\* FF (iff formFeed).  FS & never precedes ESC @, ESC C never precedes ESC 3,
\* and a mode switched on is switched off before the end.
C25_LegacyStreamOrder ==
  LegacyReturned =>
    \A out \in {ret.value} :
      /\ \A at \in {Len(Iff(LegacyInit, <<27, 64>>) \o Iff(LegacyChinese, <<28, 38>>))} :
         \A n \in {IF Len(out) >= at + 3 THEN out[at + 3] ELSE -1} :
         \A p \in {IF Len(out) >= at + 6 THEN out[at + 6] ELSE -1} :
           /\ n \in 0..255
           /\ LegacyPageLines > 0 => p \in 1..127
           /\ out = Iff(LegacyInit, <<27, 64>>)
                      \o Iff(LegacyChinese, <<28, 38>>)
                      \o <<27, 51, n>>
                      \o Iff(LegacyPageLines > 0, <<27, 67, p>>)
                      \o Iff(LegacyCondensed, <<15>>)
                      \o TextLines(call.args[1], 1)
                      \o Iff(LegacyCondensed, <<18>>)
                      \o Iff(LegacyChinese, <<28, 46>>)
                      \o Iff(LegacyFormFeed, <<12>>)
      /\ (LegacyInit /\ LegacyChinese)
           => FirstAt(out, <<27, 64>>) < FirstAt(out, <<28, 38>>)
      /\ LegacyPageLines > 0
           => /\ FirstAt(out, <<27, 51>>) # 0
              /\ FirstAt(out, <<27, 51>>) < FirstAt(out, <<27, 67>>)
      /\ LegacyChinese
           => /\ FirstAt(out, <<28, 38>>) # 0
              /\ FirstAt(out, <<28, 38>>) < FirstAt(out, <<28, 46>>)
      /\ LegacyCondensed
           => /\ FirstAt(out, <<15>>) # 0
              /\ FirstAt(out, <<15>>) < FirstAt(out, <<18>>)

\* every option on, two lines, the second with an ideograph: 28 bytes
C25_Witness_AllModesOn ==
  /\ LegacyReturned
  /\ call.args = << << <<65>>, <<20013, 65>> >>, <<>>, <<TRUE>>, <<TRUE>>,
                    <<TRUE>>, <<TRUE>>, <<44>> >>
  /\ ret.value = <<27, 64, 28, 38, 27, 51, 24, 27, 67, 44, 15,
                   65, 13, 10, 164, 164, 65, 13, 10, 18, 28, 46, 12>>

(***************************************************************************)
(* Claims about renderChar without a font (SpecService).                   *)
(***************************************************************************)
\* C28: while no font is loaded and the font file cannot be loaded, a
\* renderChar of a key that is not cached raises, for the space and the
\* control characters as for any other, and leaves the glyph cache and the
\* cached font as they were; the failure is not remembered: the next
\* renderChar made when the file can be loaded returns and loads the font.
C28_NoFontRaises ==
  [][(call'.op = "renderChar" /\ fontFileOk' = fontFileOk)
       => /\ (/\ ~cachedFont
              /\ ~fontFileOk
              /\ CallKey(call') \notin CachedKeys(glyphCache))
             => /\ ret'.status = "throw"
                /\ glyphCache' = glyphCache
                /\ cachedFont' = cachedFont
          /\ (call.op = "renderChar" /\ ret.status = "throw" /\ fontFileOk)
             => /\ ret'.status = "ok"
                /\ cachedFont'
                /\ CallKey(call') \in CachedKeys(glyphCache')]_vars

\* renderChar(' ') was called in a process without a font while the file
\* could not be loaded: it raised, nothing was cached, no font was kept
C28_Witness_SpaceRaises ==
  /\ call = [op |-> "renderChar", args |-> <<32, <<>> >>]
  /\ ret.status = "throw"
  /\ glyphCache = <<>>
  /\ ~cachedFont
  /\ ~fontFileOk

(***************************************************************************)
(* Claims about the errors of buildEscpFromBitmapLines (SpecBuild).        *)
(***************************************************************************)
BuildDone == call.op = "buildEscpFromBitmapLines" /\ ret.status # "pending"

\* some line that is not blank is more than 65535 dots wide
SomeLineTooWide ==
  \E i \in 1..Len(BuildLines) :
    /\ ~BlankEntry(BuildLines[i])
    /\ TextDots(BuildLines[i][1], ProfileOf(BuildLines[i])) > 65535

\* C29: buildEscpFromBitmapLines never raises the 'multiple of 3' error of
\* cmdGraphics24; when the text can be rendered, it raises the 16-bit column
\* count error exactly when some non-blank line is more than 65535 dots
\* wide, and then it returns no bytes at all; the only other error is the
\* font that cannot be loaded.
C29_OnlyColumnCountError ==
  BuildDone =>
    /\ ret.status = "throw" =>
         /\ ret.error \in {"Graphics column count exceeds 16-bit limit",
                           "Cannot load font"}
         /\ ret.value = <<>>
    /\ ret.error # "Graphics column data must be a multiple of 3 bytes"
    /\ cachedFont =>
         ((ret.status = "throw"
             /\ ret.error = "Graphics column count exceeds 16-bit limit")
          <=> SomeLineTooWide)
    /\ (ret.status = "throw" /\ ret.error = "Cannot load font") => ~cachedFont

\* an ordinary line and then a line of 65536 columns: the call raised the
\* column count error although the first line had been encoded
C29_Witness_SecondLineTooWide ==
  /\ BuildDone
  /\ BuildLines = << << <<65>> >>, WideEntry>>
  /\ cachedFont
  /\ ret.status = "throw"
  /\ ret.error = "Graphics column count exceeds 16-bit limit"
  /\ ret.value = <<>>

(***************************************************************************)
(* The print routes and the job queue.                                     *)
(*   src/src/services/report-formats/index.ts  createJob, updateJobStatus  *)
(*   src/unnamed/part_002   POST /api/generate (ESC/P mode and PDF mode)   *)
(*   src/unnamed/part_004   POST /api/report                               *)
(*   src/unnamed/part_003   POST /api/overlay                              *)
(*   src/unnamed/part_006   POST /api/excel/print                          *)
(*                                                                         *)
(* `jobs` is the job map; a job id is the position of the job (uuidv4      *)
(* gives every job a fresh id).  `requests` holds the handlers that have   *)
(* reached their print call: the route, the job, the copies asked for,     *)
(* the copies sent so far, and the response ("none" while the handler      *)
(* awaits the printer, then "ok" for res.json({success: true ...}) or      *)
(* "error" for res.status(400)).  The removal of a job one hour after its  *)
(* creation is outside the model.                                          *)
(***************************************************************************)
\* the number of print requests of a run
MaxRequests == 2
\* the largest `copies` of a request
MaxCopies == 2

PdfRoutes == {"generate-pdf", "report", "overlay", "excel"}
PrintRoutes == {"generate-escp"} \cup PdfRoutes

\* the copies a route hands to createJob: the excel route always prints one
RouteCopies(route) == IF route = "excel" THEN {1} ELSE 1..MaxCopies

createJob(jobMap, copies) ==
  Append(jobMap, [status |-> "pending", copies |-> copies])

updateJobStatus(jobMap, jobId, status) ==
  IF jobId \notin DOMAIN jobMap
  THEN jobMap
  ELSE [jobMap EXCEPT ![jobId].status = status]

\* a handler up to its first await: createJob, then updateJobStatus(...,
\* 'printing'), then the print call is issued
PrintRequest(route, copies) ==
  /\ Len(requests) < MaxRequests
  /\ \E created \in {createJob(jobs, copies)} :
       /\ jobs' = updateJobStatus(created, Len(created), "printing")
       /\ requests' = Append(requests, [route |-> route,
                                         job |-> Len(created),
                                         copies |-> copies,
                                         sent |-> 0,
                                         response |-> "none"])
  /\ UNCHANGED <<rasterVars, call, ret, watcherVars, sendVars>>

\* ESC/P mode: one sendEscpToLocalPrinter call of the copies loop returns;
\* after the last one the job is 'completed' and the handler answers
EscpSendReturns(r) ==
  /\ requests[r].route = "generate-escp"
  /\ requests[r].response = "none"
  /\ IF requests[r].sent + 1 < requests[r].copies
     THEN /\ requests' = [requests EXCEPT ![r].sent = @ + 1]
          /\ UNCHANGED jobs
     ELSE /\ requests' = [requests EXCEPT ![r].sent = @ + 1,
                                          ![r].response = "ok"]
          /\ jobs' = updateJobStatus(jobs, requests[r].job, "completed")
  /\ UNCHANGED <<rasterVars, call, ret, watcherVars, sendVars>>

\* ESC/P mode: a sendEscpToLocalPrinter call throws; the inner catch sets
\* the job to 'failed' and rethrows, the outer catch answers 400
EscpSendThrows(r) ==
  /\ requests[r].route = "generate-escp"
  /\ requests[r].response = "none"
  /\ jobs' = updateJobStatus(jobs, requests[r].job, "failed")
  /\ requests' = [requests EXCEPT ![r].response = "error"]
  /\ UNCHANGED <<rasterVars, call, ret, watcherVars, sendVars>>

\* PDF routes: printPdfBuffer (which prints all the copies) returns; the job
\* is 'completed' and the handler answers
PdfPrintReturns(r) ==
  /\ requests[r].route \in PdfRoutes
  /\ requests[r].response = "none"
  /\ jobs' = updateJobStatus(jobs, requests[r].job, "completed")
  /\ requests' = [requests EXCEPT ![r].sent = requests[r].copies,
                                  ![r].response = "ok"]
  /\ UNCHANGED <<rasterVars, call, ret, watcherVars, sendVars>>

\* PDF routes: printPdfBuffer throws; nothing stands between the await and
\* the catch of the handler, which only answers 400
PdfPrintThrows(r) ==
  /\ requests[r].route \in PdfRoutes
  /\ requests[r].response = "none"
  /\ requests' = [requests EXCEPT ![r].response = "error"]
  /\ UNCHANGED jobs
  /\ UNCHANGED <<rasterVars, call, ret, watcherVars, sendVars>>

InitRoutes ==
  /\ glyphCache = <<>>
  /\ cachedFont = FALSE
  /\ fontFileOk = TRUE
  /\ call = [op |-> "routes"]
  /\ ret = Pending
  /\ ServicesLoaded

NextRoutes ==
  \/ \E route \in PrintRoutes : \E copies \in RouteCopies(route) :
       PrintRequest(route, copies)
  \/ \E r \in DOMAIN requests : EscpSendReturns(r)
  \/ \E r \in DOMAIN requests : EscpSendThrows(r)
  \/ \E r \in DOMAIN requests : PdfPrintReturns(r)
  \/ \E r \in DOMAIN requests : PdfPrintThrows(r)

SpecRoutes == InitRoutes /\ [][NextRoutes]_vars

\* the handler of request r has sent its response
Responded(r) == requests[r].response # "none"

\* C27: in every print route a job that was set to 'printing' is
\* 'completed' or 'failed' once its handler has sent the response, whether
\* the print call returned or threw, and it is 'completed' only if every
\* requested copy was sent.
C27_JobLeavesPrinting ==
  \A r \in DOMAIN requests :
    /\ Responded(r) => jobs[requests[r].job].status \in {"completed", "failed"}
    /\ jobs[requests[r].job].status = "completed" =>
         requests[r].sent = requests[r].copies

(***************************************************************************)
(* escp.service.ts: sendEscpToTcp.                                         *)
(*                                                                         *)
(* One call: `client` is the socket (its state and the state of the one    *)
(* client.write the connect callback issues), `timeout` the 10 s timer,    *)
(* `promise` the promise the call returns.  The handlers the call          *)
(* registers are the actions; the socket and the event loop decide which   *)
(* of them runs next.  A socket emits 'close' last: after it no handler    *)
(* of this socket runs any more.  The peer may close the connection while  *)
(* the write is still queued.                                              *)
(***************************************************************************)
Settled == {"resolved", "rejected"}

\* resolve() and reject() of a promise that is already settled do nothing
resolve(p) == IF p = "pending" THEN "resolved" ELSE p
reject(p) == IF p = "pending" THEN "rejected" ELSE p

\* clearTimeout(timeout)
clearTimeout(t) == IF t = "armed" THEN "cleared" ELSE t

\* client.destroy() and client.end() of a socket in state s
destroy(s) == IF s = "closed" THEN s ELSE "destroyed"
end(s) == IF s = "open" THEN "ended" ELSE s

SendBuffers == {<<>>, cmdInit, cmdFF, cmdInit \o cmdFF}
SendPorts == {9100, 515}
SendCalls ==
  {[op |-> "sendEscpToTcp", args |-> <<buffer, "printer", port>>] :
     buffer \in SendBuffers, port \in SendPorts}

InitSend ==
  /\ glyphCache = <<>>
  /\ cachedFont = FALSE
  /\ fontFileOk = TRUE
  /\ call \in SendCalls
  /\ ret = Pending
  /\ ServicesLoaded

\* the executor of the promise: new net.Socket(), setTimeout, client.connect
SendEscpToTcpCall ==
  /\ promise = "none"
  /\ client' = [sock |-> "connecting", write |-> "none"]
  /\ timeout' = "armed"
  /\ promise' = "pending"
  /\ UNCHANGED <<rasterVars, call, ret, watcherVars, routeVars>>

\* the connect callback: client.write(buffer, ...) is issued
ConnectCallback ==
  /\ client.sock = "connecting"
  /\ client' = [sock |-> "open", write |-> "pending"]
  /\ UNCHANGED <<rasterVars, call, ret, watcherVars, routeVars,
                 timeout, promise>>

\* the write callback, with or without an error
WriteCallback(err) ==
  /\ client.write = "pending"
  /\ client.sock \in {"open", "destroyed", "errored"}
  /\ client.sock # "open" => err
  /\ timeout' = clearTimeout(timeout)
  /\ IF err
     THEN /\ client' = [sock |-> destroy(client.sock), write |-> "failed"]
          /\ promise' = reject(promise)
     ELSE /\ client' = [sock |-> end(client.sock), write |-> "ok"]
          /\ promise' = resolve(promise)
  /\ UNCHANGED <<rasterVars, call, ret, watcherVars, routeVars>>

\* client.on('error'): the socket fails while connecting, while the write
\* is queued or after end(); the socket is then destroyed by net
ErrorEvent ==
  /\ client.sock \in {"connecting", "open", "ended"}
  /\ timeout' = clearTimeout(timeout)
  /\ promise' = reject(promise)
  /\ client' = [client EXCEPT !.sock = "errored"]
  /\ UNCHANGED <<rasterVars, call, ret, watcherVars, routeVars>>

\* client.on('close')
CloseEvent ==
  /\ client.sock \in {"open", "ended", "destroyed", "errored"}
  /\ timeout' = clearTimeout(timeout)
  /\ client' = [client EXCEPT !.sock = "closed"]
  /\ UNCHANGED <<rasterVars, call, ret, watcherVars, routeVars, promise>>

\* the setTimeout callback, 10 s after the call
TimeoutCallback ==
  /\ timeout = "armed"
  /\ timeout' = "fired"
  /\ client' = [client EXCEPT !.sock = destroy(client.sock)]
  /\ promise' = reject(promise)
  /\ UNCHANGED <<rasterVars, call, ret, watcherVars, routeVars>>

NextSend ==
  \/ SendEscpToTcpCall
  \/ ConnectCallback
  \/ \E err \in BOOLEAN : WriteCallback(err)
  \/ ErrorEvent
  \/ CloseEvent
  \/ TimeoutCallback

\* an armed timer fires: the event loop runs the callback of setTimeout;
\* what the socket does is up to the network
SpecSend == InitSend /\ [][NextSend]_vars /\ WF_vars(TimeoutCallback)

MaxFiles == 3

\* the module state processQueue works on
QueueState ==
  [isProcessing |-> isProcessing, pendingFiles |-> pendingFiles,
   queueRuns |-> queueRuns, taken |-> taken]

\* the head of `while (pendingFiles.length > 0)` reached in round `round`:
\* shift the next file and wait for the timer, or leave the loop and reset
\* isProcessing
LoopHead(st, round) ==
  IF Len(st.pendingFiles) > 0
  THEN [st EXCEPT !.pendingFiles = Tail(@),
                  !.taken = Append(@, Head(st.pendingFiles)),
                  !.queueRuns = @ \cup {[file |-> Head(st.pendingFiles),
                                         pc |-> "delay",
                                         job |-> 0,
                                         round |-> round]}]
  ELSE [st EXCEPT !.isProcessing = FALSE]

\* processQueue() without its guard
processQueue_NoGuard(st) == LoopHead([st EXCEPT !.isProcessing = TRUE], 1)

\* processQueue() from its call to its first await or its return
processQueue(st) ==
  IF st.isProcessing
  THEN st
  ELSE LoopHead([st EXCEPT !.isProcessing = TRUE], 1)

\* the module state becomes st
SetQueueState(st) ==
  /\ isProcessing' = st.isProcessing
  /\ pendingFiles' = st.pendingFiles
  /\ queueRuns' = st.queueRuns
  /\ taken' = st.taken

\* the 'add' handler: an Excel file is pushed and processQueue() is called,
\* any other file is ignored
AddEvent(excel) ==
  /\ watcher
  /\ arrivals < MaxFiles
  /\ arrivals' = arrivals + 1
  /\ call' = [op |-> "add", file |-> arrivals + 1, excel |-> excel]
  /\ IF excel
     THEN SetQueueState(processQueue(
            [QueueState EXCEPT !.pendingFiles = Append(@, arrivals + 1)]))
     ELSE UNCHANGED <<isProcessing, pendingFiles, queueRuns, taken>>
  /\ UNCHANGED <<rasterVars, ret, watcher, routeVars, sendVars>>

\* processQueue after its timer: the file is gone and the loop goes on, or
\* processExcelFile starts (createJob, updateJobStatus 'printing') and is
\* awaited
DelayElapsed(run, exists) ==
  /\ run \in queueRuns
  /\ run.pc = "delay"
  /\ call' = [op |-> "delay", file |-> run.file, exists |-> exists]
  /\ IF exists
     THEN /\ \E created \in {createJob(jobs, 1)} :
               /\ jobs' = updateJobStatus(created, Len(created), "printing")
               /\ queueRuns' = (queueRuns \ {run}) \cup
                    {[run EXCEPT !.pc = "processing", !.job = Len(created)]}
          /\ UNCHANGED <<isProcessing, pendingFiles, taken>>
     ELSE /\ SetQueueState(LoopHead(
                 [QueueState EXCEPT !.queueRuns = @ \ {run}], run.round + 1))
          /\ UNCHANGED jobs
  /\ UNCHANGED <<rasterVars, ret, watcher, arrivals, requests, sendVars>>

\* processExcelFile settles: the job is 'completed', or 'failed' by its
\* catch; then the loop goes on
ProcessExcelFileDone(run, ok) ==
  /\ run \in queueRuns
  /\ run.pc = "processing"
  /\ call' = [op |-> "processed", file |-> run.file, ok |-> ok]
  /\ jobs' = updateJobStatus(jobs, run.job,
                             IF ok THEN "completed" ELSE "failed")
  /\ SetQueueState(LoopHead(
       [QueueState EXCEPT !.queueRuns = @ \ {run}], run.round + 1))
  /\ UNCHANGED <<rasterVars, ret, watcher, arrivals, requests, sendVars>>

\* stopWatcher(): the watcher is closed and the queue is emptied
StopWatcher ==
  /\ call' = [op |-> "stopWatcher"]
  /\ watcher' = FALSE
  /\ pendingFiles' = <<>>
  /\ UNCHANGED <<rasterVars, ret, isProcessing, queueRuns, arrivals, taken,
                 routeVars, sendVars>>

\* startWatcher(cfg): stopWatcher() first if a watcher exists, then a new
\* watcher with the 'add' handler
StartWatcher ==
  /\ call' = [op |-> "startWatcher"]
  /\ watcher' = TRUE
  /\ pendingFiles' = IF watcher THEN <<>> ELSE pendingFiles
  /\ UNCHANGED <<rasterVars, ret, isProcessing, queueRuns, arrivals, taken,
                 routeVars, sendVars>>

InitWatcher ==
  /\ glyphCache = <<>>
  /\ cachedFont = FALSE
  /\ fontFileOk = TRUE
  /\ call = [op |-> "load"]
  /\ ret = Pending
  /\ ServicesLoaded

QueueStep ==
  \/ \E run \in queueRuns : \E exists \in BOOLEAN : DelayElapsed(run, exists)
  \/ \E run \in queueRuns : \E ok \in BOOLEAN : ProcessExcelFileDone(run, ok)

NextWatcher ==
  \/ \E excel \in BOOLEAN : AddEvent(excel)
  \/ QueueStep
  \/ StopWatcher
  \/ StartWatcher

\* the one second timer fires and the conversion and the print job of a
\* file end: a suspended processQueue is resumed
SpecWatcher == InitWatcher /\ [][NextWatcher]_vars /\ WF_vars(QueueStep)

\* the processExcelFile invocations in progress
InProgress == {run \in queueRuns : run.pc = "processing"}

FilesInQueue == {pendingFiles[i] : i \in DOMAIN pendingFiles}

\* the files were shifted in the order of their 'add' events
TakenInArrivalOrder ==
  \A i, j \in DOMAIN taken : i < j => taken[i] < taken[j]

\* file f leaves pendingFiles in this step
LeavesQueue(f) == f \in FilesInQueue /\ f \notin FilesInQueue'

\* in this step f is shifted by a processQueue invocation that had already
\* shifted a file before it: the loop that was running when f was pushed
TakenByRunningLoop(f) ==
  /\ taken' = Append(taken, f)
  /\ \E run \in queueRuns' :
       run.file = f /\ run.pc = "delay" /\ run.round > 1

\* this step is stopWatcher(), by itself or at the start of startWatcher,
\* emptying the queue
QueueDiscarded ==
  /\ call'.op \in {"stopWatcher", "startWatcher"}
  /\ pendingFiles' = <<>>

OneAtATimeInOrder ==
  /\ Cardinality(InProgress) <= 1
  /\ Cardinality(queueRuns) <= 1
  /\ TakenInArrivalOrder

\* C26: under every interleaving of 'add' events (each calling
\* processQueue), stopWatcher and startWatcher, at most one processExcelFile
\* is in progress and the files are taken in arrival order; while a file is
\* queued a processQueue loop is running, a queued file leaves the queue
\* only by being shifted by that running loop or by stopWatcher emptying
\* the queue, and every queued file does leave the queue.
C26_SequentialQueue ==
  /\ []OneAtATimeInOrder
  /\ [](pendingFiles # <<>> => isProcessing /\ queueRuns # {})
  /\ [][\A f \in 1..MaxFiles :
          LeavesQueue(f) => (TakenByRunningLoop(f) \/ QueueDiscarded)]_vars
  /\ \A f \in 1..MaxFiles :
       (f \in FilesInQueue) ~> (f \notin FilesInQueue)

\* file 2 arrived while the loop held file 1, its processQueue call
\* returned early, and the loop of file 1 has gone on to process file 2
C26_Witness_SecondFileInSameLoop ==
  /\ taken = <<1, 2>>
  /\ \E run \in queueRuns :
       run.file = 2 /\ run.round = 2 /\ run.pc = "processing"
  /\ Len(jobs) = 2

\* C26 as stated: one processExcelFile at a time, arrival order, and a
\* file that was queued while another was processed is always picked up by
\* the running loop, under every interleaving with stopWatcher and
\* startWatcher.
C26_Original_AlwaysPickedUp ==
  /\ []OneAtATimeInOrder
  /\ [][\A f \in 1..MaxFiles : LeavesQueue(f) => TakenByRunningLoop(f)]_vars
====
